---------------------------- MODULE Spec2Model ----------------------------
(***************************************************************************)
(* Model of the PR analysis core of pr_analyzer: the timeline analyzer    *)
(* (timeline_analyzer.py) and the conversation analyzer                   *)
(* (conversation_analyzer.py), run on a PR snapshot (github_client.PRData),*)
(* and the parser of the LLM response (llm_client.py).                     *)
(*                                                                         *)
(* Text is a sequence of one-character strings, so that the regular       *)
(* expressions and the keyword tests of the code are computed on the      *)
(* characters of a comment body.  A timestamp string is a record          *)
(* [k, d, h]: k = "iso" stands for "2024-01-<d>T<h>:00:00+00:00",         *)
(* k = "empty" for "" and k = "bad" for a non-empty string that           *)
(* datetime.fromisoformat rejects.  A parsed datetime is the number of    *)
(* hours since the start of day 0.  Python's None is <<>> and a present   *)
(* value v is <<v>>.                                                       *)
(***************************************************************************)
EXTENDS Integers, Sequences, FiniteSets, TLC

\* snap: the PR snapshot (PRData) the fetch layer hands to the analyzers
\* conv: None, or Some(result of analyze_conversations(snap))
\* tl:   None, or Some(outcome of analyze_timeline(snap))
\* periods: None, or Some(outcome of analyze_activity_periods(snap))
\* llm:  the text the LLM answered (analysis_text) and None, or
\*       Some(result of _parse_analysis_response(analysis_text))
VARIABLES snap, conv, tl, periods, llm, run

vars == <<snap, conv, tl, periods, llm, run>>

None == <<>>

Some(v) == <<v>>

-----------------------------------------------------------------------------
(* Characters and strings                                                  *)

UpperAlpha == <<"A", "B", "C", "D", "E", "F", "G", "H", "I", "J", "K", "L", "M", "N", "O", "P", "Q", "R", "S", "T", "U", "V", "W", "X", "Y", "Z">>

LowerAlpha == <<"a", "b", "c", "d", "e", "f", "g", "h", "i", "j", "k", "l", "m", "n", "o", "p", "q", "r", "s", "t", "u", "v", "w", "x", "y", "z">>

Digits == <<"0", "1", "2", "3", "4", "5", "6", "7", "8", "9">>

InSeq(c, s) == \E i \in 1..Len(s) : s[i] = c

\* The backtick character, which a TLA+ string cannot hold
Backtick == "BACKTICK"

\* [a-zA-Z]
IsLetter(c) == InSeq(c, UpperAlpha) \/ InSeq(c, LowerAlpha)

\* \w
IsWordChar(c) == IsLetter(c) \/ InSeq(c, Digits) \/ c = "_"

LowerChar(c) ==
    IF InSeq(c, UpperAlpha)
    THEN LowerAlpha[CHOOSE i \in 1..26 : UpperAlpha[i] = c]
    ELSE c

\* str.lower()
Lower(s) == [i \in 1..Len(s) |-> LowerChar(s[i])]

\* keyword in text
Contains(s, k) ==
    \E i \in 1..(Len(s) - Len(k) + 1) : SubSeq(s, i, i + Len(k) - 1) = k

\* any(keyword in text for keyword in keywords)
AnyIn(keywords, text) == \E j \in 1..Len(keywords) : Contains(text, keywords[j])

\* positions of character c in s, ascending
Positions(s, c) == {i \in 1..Len(s) : s[i] = c}

Min(S) == CHOOSE x \in S : \A y \in S : x <= y

Max(S) == CHOOSE x \in S : \A y \in S : x >= y


-----------------------------------------------------------------------------
(* Timestamp strings (github_client.py: isoformat() strings, "" for a      *)
(* review without submitted_at)                                            *)

Iso(d, h) == [k |-> "iso", d |-> d, h |-> h]

EmptyStr == [k |-> "empty", d |-> 0, h |-> 0]

BadStr == [k |-> "bad", d |-> 0, h |-> 0]

\* a <= b on timestamp strings as Python compares str: "" first, then the
\* ISO strings in chronological order (same format), then "not-a-date"
StrLeq(a, b) ==
    CASE a.k = "empty" -> TRUE
      [] a.k = "iso" -> \/ b.k = "bad"
                        \/ b.k = "iso" /\ (a.d < b.d \/ (a.d = b.d /\ a.h <= b.h))
      [] OTHER -> b.k = "bad"

\* The three values of Comment.type
TypeIssue == <<"i", "s", "s", "u", "e", "_", "c", "o", "m", "m", "e", "n", "t">>

TypeReviewComment == <<"r", "e", "v", "i", "e", "w", "_", "c", "o", "m", "m", "e", "n", "t">>

TypeReview == <<"r", "e", "v", "i", "e", "w">>

-----------------------------------------------------------------------------
(* conversation_analyzer.py                                                *)

\* re.search(r'`([^`]+\.[a-zA-Z]+)`', body): the text between a backtick and
\* the next one, when it is <non-empty>.<letters>; the leftmost such pair
FileContentOk(content) ==
    \E p \in 2..(Len(content) - 1) :
        /\ content[p] = "."
        /\ \A q \in (p + 1)..Len(content) : IsLetter(content[q])

FileMatchStarts(body) ==
    LET ticks == Positions(body, Backtick)
    IN  {i \in ticks :
            /\ \E j \in ticks : j > i
            /\ FileContentOk(SubSeq(body, i + 1, Min({j \in ticks : j > i}) - 1))}

FileMatch(body) ==
    LET starts == FileMatchStarts(body)
    IN  IF starts = {} THEN None
        ELSE LET i == Min(starts)
                 j == Min({t \in Positions(body, Backtick) : t > i})
             IN  Some(SubSeq(body, i + 1, j - 1))

\* re.search(r'@(\w+)', body): the leftmost '@' followed by a word character,
\* and the longest run of word characters after it
MentionMatch(body) ==
    LET starts == {i \in Positions(body, "@") :
                      i < Len(body) /\ IsWordChar(body[i + 1])}
    IN  IF starts = {} THEN None
        ELSE LET i == Min(starts)
                 e == Max({j \in (i + 1)..Len(body) :
                              \A q \in (i + 1)..j : IsWordChar(body[q])})
             IN  Some(SubSeq(body, i + 1, e))

KeyApprovalKeywords == <<<<"l", "g", "t", "m">>, <<"l", "o", "o", "k", "s", " ", "g", "o", "o", "d">>, <<"a", "p", "p", "r", "o", "v", "e", "d">>>>

KeyQuestionKeywords == <<<<"q", "u", "e", "s", "t", "i", "o", "n">>, <<"?">>, <<"w", "h", "y">>, <<"h", "o", "w">>>>

KeySuggestionKeywords == <<<<"s", "u", "g", "g", "e", "s", "t">>, <<"c", "o", "u", "l", "d">>, <<"m", "i", "g", "h", "t">>, <<"c", "o", "n", "s", "i", "d", "e", "r">>>>

\* Mutant: the keyword rules are tried before the file and mention rules
determine_thread_key_keywords_first(comment) ==
    LET file_match == FileMatch(comment.body)
        mention_match == MentionMatch(comment.body)
        low == Lower(comment.body)
    IN  IF AnyIn(KeyApprovalKeywords, low) THEN <<"a", "p", "p", "r", "o", "v", "a", "l">>
        ELSE IF AnyIn(KeyQuestionKeywords, low) THEN <<"q", "u", "e", "s", "t", "i", "o", "n", "s">>
        ELSE IF AnyIn(KeySuggestionKeywords, low) THEN <<"s", "u", "g", "g", "e", "s", "t", "i", "o", "n", "s">>
        ELSE IF file_match # None THEN <<"f", "i", "l", "e", "_">> \o file_match[1]
        ELSE IF mention_match # None THEN <<"m", "e", "n", "t", "i", "o", "n", "_">> \o mention_match[1]
        ELSE <<"g", "e", "n", "e", "r", "a", "l", "_">> \o comment.type

determine_thread_key(comment) ==
    LET file_match == FileMatch(comment.body)
        mention_match == MentionMatch(comment.body)
        low == Lower(comment.body)
    IN  IF file_match # None THEN <<"f", "i", "l", "e", "_">> \o file_match[1]
        ELSE IF mention_match # None THEN <<"m", "e", "n", "t", "i", "o", "n", "_">> \o mention_match[1]
        ELSE IF AnyIn(KeyApprovalKeywords, low) THEN <<"a", "p", "p", "r", "o", "v", "a", "l">>
        ELSE IF AnyIn(KeyQuestionKeywords, low) THEN <<"q", "u", "e", "s", "t", "i", "o", "n", "s">>
        ELSE IF AnyIn(KeySuggestionKeywords, low) THEN <<"s", "u", "g", "g", "e", "s", "t", "i", "o", "n", "s">>
        ELSE <<"g", "e", "n", "e", "r", "a", "l", "_">> \o comment.type

\* sorted(comments, key=lambda x: x.created_at): stable, by string order
RECURSIVE SortByCreatedAt(_)
SortByCreatedAt(comments) ==
    IF comments = <<>> THEN <<>>
    ELSE LET n == Len(comments)
             x == comments[n]
             rest == SortByCreatedAt(SubSeq(comments, 1, n - 1))
             m == Cardinality({i \in 1..Len(rest) :
                                  StrLeq(rest[i].created_at, x.created_at)})
         IN  SubSeq(rest, 1, m) \o <<x>> \o SubSeq(rest, m + 1, Len(rest))

\* str.strip() for the blank character
RECURSIVE Strip(_)
Strip(s) ==
    IF s = <<>> THEN <<>>
    ELSE IF s[1] = " " THEN Strip(Tail(s))
    ELSE IF s[Len(s)] = " " THEN Strip(SubSeq(s, 1, Len(s) - 1))
    ELSE s

\* body.split('.')[0]
FirstSentence(body) ==
    LET dots == Positions(body, ".")
    IN  IF dots = {} THEN body ELSE SubSeq(body, 1, Min(dots) - 1)

extract_thread_topic(comments) ==
    IF comments = <<>> THEN <<"G", "e", "n", "e", "r", "a", "l", " ", "D", "i", "s", "c", "u", "s", "s", "i", "o", "n">>
    ELSE LET first_comment == SortByCreatedAt(comments)[1]
             topic == Strip(FirstSentence(first_comment.body))
         IN  IF Len(topic) > 100 THEN SubSeq(topic, 1, 100) \o <<".", ".", ".">> ELSE topic

ResolutionKeywords == <<<<"r", "e", "s", "o", "l", "v", "e", "d">>, <<"f", "i", "x", "e", "d">>, <<"d", "o", "n", "e">>, <<"t", "h", "a", "n", "k", "s">>, <<"l", "g", "t", "m">>, <<"m", "e", "r", "g", "e", "d">>>>

OngoingKeywords == <<<<"w", "i", "l", "l">>, <<"t", "o", "d", "o">>, <<"l", "a", "t", "e", "r">>, <<"n", "e", "x", "t">>>>

\* Mutant: the last-three slice is dropped, so every comment is scanned
RecentCommentsAll(comments) == SortByCreatedAt(comments)

\* sorted(comments, key=created_at)[-3:]
RecentComments(comments) ==
    LET s == SortByCreatedAt(comments)
    IN  SubSeq(s, IF Len(s) > 3 THEN Len(s) - 2 ELSE 1, Len(s))

\* the loop over reversed(recent_comments), from index i down to 1
RECURSIVE ScanResolution(_, _)
ScanResolution(recent, i) ==
    IF i = 0 THEN "unresolved"
    ELSE LET comment_lower == Lower(recent[i].body)
         IN  IF AnyIn(ResolutionKeywords, comment_lower) THEN "resolved"
             ELSE IF AnyIn(OngoingKeywords, comment_lower) THEN "ongoing"
             ELSE ScanResolution(recent, i - 1)

determine_resolution_status(comments) ==
    IF comments = <<>> THEN "unresolved"
    ELSE LET recent_comments == RecentComments(comments)
         IN  ScanResolution(recent_comments, Len(recent_comments))

\* " ".join(comment.body.lower() for comment in comments)
RECURSIVE JoinLower(_)
JoinLower(comments) ==
    IF comments = <<>> THEN <<>>
    ELSE IF Len(comments) = 1 THEN Lower(comments[1].body)
    ELSE Lower(comments[1].body) \o <<" ">> \o JoinLower(Tail(comments))

\* Mutant: the question keywords are tried before the suggestion keywords
classify_thread_type_question_first(comments) ==
    IF comments = <<>> THEN "general"
    ELSE LET all_text == JoinLower(comments)
         IN  IF AnyIn(<<<<"a", "p", "p", "r", "o", "v", "e">>, <<"l", "g", "t", "m">>, <<"l", "o", "o", "k", "s", " ", "g", "o", "o", "d">>>>, all_text)
                THEN "approval"
             ELSE IF AnyIn(<<<<"?">>, <<"q", "u", "e", "s", "t", "i", "o", "n">>, <<"w", "h", "y">>, <<"h", "o", "w">>, <<"w", "h", "a", "t">>>>, all_text)
                THEN "question"
             ELSE IF AnyIn(<<<<"s", "u", "g", "g", "e", "s", "t">>, <<"r", "e", "c", "o", "m", "m", "e", "n", "d">>, <<"c", "o", "u", "l", "d">>, <<"m", "i", "g", "h", "t">>>>, all_text)
                THEN "suggestion"
             ELSE IF AnyIn(<<<<"i", "s", "s", "u", "e">>, <<"p", "r", "o", "b", "l", "e", "m">>, <<"e", "r", "r", "o", "r">>, <<"b", "u", "g">>>>, all_text)
                THEN "issue_discussion"
             ELSE "review_feedback"

\* Mutant: the approval keywords are those of the thread key
classify_thread_type_key_keywords(comments) ==
    IF comments = <<>> THEN "general"
    ELSE LET all_text == JoinLower(comments)
         IN  IF AnyIn(<<<<"a", "p", "p", "r", "o", "v", "a", "l">>, <<"l", "g", "t", "m">>, <<"l", "o", "o", "k", "s", " ", "g", "o", "o", "d">>>>, all_text)
                THEN "approval"
             ELSE IF AnyIn(<<<<"s", "u", "g", "g", "e", "s", "t">>, <<"r", "e", "c", "o", "m", "m", "e", "n", "d">>, <<"c", "o", "u", "l", "d">>, <<"m", "i", "g", "h", "t">>>>, all_text)
                THEN "suggestion"
             ELSE IF AnyIn(<<<<"?">>, <<"q", "u", "e", "s", "t", "i", "o", "n">>, <<"w", "h", "y">>, <<"h", "o", "w">>, <<"w", "h", "a", "t">>>>, all_text)
                THEN "question"
             ELSE IF AnyIn(<<<<"i", "s", "s", "u", "e">>, <<"p", "r", "o", "b", "l", "e", "m">>, <<"e", "r", "r", "o", "r">>, <<"b", "u", "g">>>>, all_text)
                THEN "issue_discussion"
             ELSE "review_feedback"

classify_thread_type(comments) ==
    IF comments = <<>> THEN "general"
    ELSE LET all_text == JoinLower(comments)
         IN  IF AnyIn(<<<<"a", "p", "p", "r", "o", "v", "e">>, <<"l", "g", "t", "m">>, <<"l", "o", "o", "k", "s", " ", "g", "o", "o", "d">>>>, all_text)
                THEN "approval"
             ELSE IF AnyIn(<<<<"s", "u", "g", "g", "e", "s", "t">>, <<"r", "e", "c", "o", "m", "m", "e", "n", "d">>, <<"c", "o", "u", "l", "d">>, <<"m", "i", "g", "h", "t">>>>, all_text)
                THEN "suggestion"
             ELSE IF AnyIn(<<<<"?">>, <<"q", "u", "e", "s", "t", "i", "o", "n">>, <<"w", "h", "y">>, <<"h", "o", "w">>, <<"w", "h", "a", "t">>>>, all_text)
                THEN "question"
             ELSE IF AnyIn(<<<<"i", "s", "s", "u", "e">>, <<"p", "r", "o", "b", "l", "e", "m">>, <<"e", "r", "r", "o", "r">>, <<"b", "u", "g">>>>, all_text)
                THEN "issue_discussion"
             ELSE "review_feedback"

\* the keys of topic_groups, a dict: in the order of their first comment
RECURSIVE TopicKeys(_)
TopicKeys(comments) ==
    IF comments = <<>> THEN <<>>
    ELSE LET n == Len(comments)
             before == TopicKeys(SubSeq(comments, 1, n - 1))
             thread_key == determine_thread_key(comments[n])
         IN  IF \E i \in 1..Len(before) : before[i] = thread_key
             THEN before
             ELSE Append(before, thread_key)

\* Mutant: topic_groups[thread_key] = [comment] instead of append, which
\* keeps only the last comment of the key
TopicGroupOverwritten(comments, thread_key) ==
    LET all == SelectSeq(comments, LAMBDA c : determine_thread_key(c) = thread_key)
    IN  SubSeq(all, Len(all), Len(all))

\* topic_groups[thread_key]: the comments of that key, in input order
TopicGroup(comments, thread_key) ==
    SelectSeq(comments, LAMBDA c : determine_thread_key(c) = thread_key)

MakeThread(thread_id, thread_comments) ==
    [thread_id |-> thread_id,
     participants |-> {thread_comments[i].author : i \in 1..Len(thread_comments)},
     comments |-> SortByCreatedAt(thread_comments),
     topic |-> extract_thread_topic(thread_comments),
     resolution_status |-> determine_resolution_status(thread_comments),
     thread_type |-> classify_thread_type(thread_comments)]

identify_conversation_threads(comments) ==
    LET keys == TopicKeys(comments)
        groups == [i \in 1..Len(keys) |-> TopicGroup(comments, keys[i])]
        kept == SelectSeq([i \in 1..Len(keys) |-> i], LAMBDA i : Len(groups[i]) > 0)
    IN  [n \in 1..Len(kept) |-> MakeThread(keys[kept[n]], groups[kept[n]])]

\* A float computed as a quotient of two integers: num / den
Ratio(num, den) == [num |-> num, den |-> den]

\* the keys of a dict filled in one pass over the comments: their authors,
\* in the order of their first comment
RECURSIVE AuthorsInOrder(_)
AuthorsInOrder(comments) ==
    IF comments = <<>> THEN <<>>
    ELSE LET n == Len(comments)
             before == AuthorsInOrder(SubSeq(comments, 1, n - 1))
             a == comments[n].author
         IN  IF \E i \in 1..Len(before) : before[i] = a
             THEN before
             ELSE Append(before, a)

\* Mutant: the suggestion keywords are tried before the question keywords
ReviewerCommentTypeSuggestionFirst(comment) ==
    LET comment_lower == Lower(comment.body)
    IN  IF AnyIn(<<<<"s", "u", "g", "g", "e", "s", "t">>, <<"r", "e", "c", "o", "m", "m", "e", "n", "d">>, <<"c", "o", "u", "l", "d">>>>, comment_lower) THEN "suggestions"
        ELSE IF AnyIn(<<<<"?">>, <<"q", "u", "e", "s", "t", "i", "o", "n">>, <<"w", "h", "y">>, <<"h", "o", "w">>>>, comment_lower)
           THEN "questions"
        ELSE IF AnyIn(<<<<"a", "p", "p", "r", "o", "v", "e">>, <<"l", "g", "t", "m">>, <<"l", "o", "o", "k", "s", " ", "g", "o", "o", "d">>>>, comment_lower)
           THEN "approvals"
        ELSE "general"

\* the if/elif chain on one comment of a reviewer
ReviewerCommentType(comment) ==
    LET comment_lower == Lower(comment.body)
    IN  IF AnyIn(<<<<"?">>, <<"q", "u", "e", "s", "t", "i", "o", "n">>, <<"w", "h", "y">>, <<"h", "o", "w">>>>, comment_lower) THEN "questions"
        ELSE IF AnyIn(<<<<"s", "u", "g", "g", "e", "s", "t">>, <<"r", "e", "c", "o", "m", "m", "e", "n", "d">>, <<"c", "o", "u", "l", "d">>>>, comment_lower)
           THEN "suggestions"
        ELSE IF AnyIn(<<<<"a", "p", "p", "r", "o", "v", "e">>, <<"l", "g", "t", "m">>, <<"l", "o", "o", "k", "s", " ", "g", "o", "o", "d">>>>, comment_lower)
           THEN "approvals"
        ELSE "general"

\* Mutant: five comments are not yet a high engagement
EngagementLevelAboveFive(total_comments) ==
    IF total_comments > 5 THEN "high"
    ELSE IF total_comments >= 2 THEN "medium"
    ELSE "low"

EngagementLevel(total_comments) ==
    IF total_comments >= 5 THEN "high"
    ELSE IF total_comments >= 2 THEN "medium"
    ELSE "low"

MakeProfile(author, author_comments) ==
    [name |-> author,
     total_comments |-> Len(author_comments),
     comment_types |->
        [t \in {"questions", "suggestions", "approvals", "general"} |->
            Cardinality({i \in 1..Len(author_comments) :
                            ReviewerCommentType(author_comments[i]) = t})],
     avg_response_time |-> 0,
     engagement_level |-> EngagementLevel(Len(author_comments))]

analyze_reviewer_profiles(comments, pr_author) ==
    LET authors == AuthorsInOrder(SelectSeq(comments, LAMBDA c : c.author # pr_author))
    IN  [n \in 1..Len(authors) |->
            MakeProfile(authors[n],
                        SelectSeq(comments, LAMBDA c : c.author = authors[n]))]

\* the loop of _assess_communication_tone: the number of comments whose
\* lowered body contains one of the indicators
RECURSIVE CountWith(_, _)
CountWith(comments, indicators) ==
    IF comments = <<>> THEN 0
    ELSE (IF AnyIn(indicators, Lower(Head(comments).body)) THEN 1 ELSE 0)
         + CountWith(Tail(comments), indicators)

PositiveIndicators == <<<<"t", "h", "a", "n", "k", "s">>, <<"g", "r", "e", "a", "t">>, <<"g", "o", "o", "d">>, <<"e", "x", "c", "e", "l", "l", "e", "n", "t">>, <<"p", "e", "r", "f", "e", "c", "t">>, <<"n", "i", "c", "e">>>>

DirectiveIndicators == <<<<"m", "u", "s", "t">>, <<"s", "h", "o", "u", "l", "d">>, <<"n", "e", "e", "d", " ", "t", "o">>, <<"r", "e", "q", "u", "i", "r", "e", "d">>, <<"n", "e", "c", "e", "s", "s", "a", "r", "y">>>>

CollaborativeIndicators == <<<<"s", "u", "g", "g", "e", "s", "t">>, <<"p", "e", "r", "h", "a", "p", "s">>, <<"m", "i", "g", "h", "t">>, <<"c", "o", "u", "l", "d">>, <<"w", "h", "a", "t", " ", "d", "o", " ", "y", "o", "u", " ", "t", "h", "i", "n", "k">>>>

\* Mutant: directive_count >= collaborative_count, so a tie is directive
PredominantToneTieDirective(positive_count, directive_count, collaborative_count) ==
    IF collaborative_count > directive_count /\ positive_count > 0
    THEN "collaborative"
    ELSE IF directive_count >= collaborative_count THEN "directive"
    ELSE "mixed"

\* "Determine predominant tone"
PredominantTone(positive_count, directive_count, collaborative_count) ==
    IF collaborative_count > directive_count /\ positive_count > 0
    THEN "collaborative"
    ELSE IF directive_count > collaborative_count THEN "directive"
    ELSE "mixed"

\* the early return for an empty comment list
EmptyTone == "neutral"

assess_communication_tone(comments) ==
    IF comments = <<>> THEN EmptyTone
    ELSE PredominantTone(CountWith(comments, PositiveIndicators),
                         CountWith(comments, DirectiveIndicators),
                         CountWith(comments, CollaborativeIndicators))

\* Mutant: sorted(...) without reverse=True
RECURSIVE SortByCountAsc(_)
SortByCountAsc(items) ==
    IF items = <<>> THEN <<>>
    ELSE LET n == Len(items)
             x == items[n]
             rest == SortByCountAsc(SubSeq(items, 1, n - 1))
             m == Cardinality({i \in 1..Len(rest) : rest[i][2] <= x[2]})
         IN  SubSeq(rest, 1, m) \o <<x>> \o SubSeq(rest, m + 1, Len(rest))

\* sorted(reviewer_activity.items(), key=lambda x: x[1], reverse=True):
\* stable, so equal counts keep the order of the dict
RECURSIVE SortByCountDesc(_)
SortByCountDesc(items) ==
    IF items = <<>> THEN <<>>
    ELSE LET n == Len(items)
             x == items[n]
             rest == SortByCountDesc(SubSeq(items, 1, n - 1))
             m == Cardinality({i \in 1..Len(rest) : rest[i][2] >= x[2]})
         IN  SubSeq(rest, 1, m) \o <<x>> \o SubSeq(rest, m + 1, Len(rest))

MostActiveReviewers(comments) ==
    LET authors == AuthorsInOrder(comments)
        reviewer_activity ==
            [n \in 1..Len(authors) |->
                <<authors[n],
                  Cardinality({i \in 1..Len(comments) : comments[i].author = authors[n]})>>]
        ranked == SortByCountDesc(reviewer_activity)
    IN  SubSeq(ranked, 1, IF Len(ranked) > 5 THEN 5 ELSE Len(ranked))

RECURSIVE SumLen(_)
SumLen(threads) ==
    IF threads = <<>> THEN 0
    ELSE Len(Head(threads).comments) + SumLen(Tail(threads))

\* Mutant: an ongoing thread counts for every status
CountStatusOrOngoing(threads, status) ==
    Cardinality({i \in 1..Len(threads) :
                    threads[i].resolution_status \in {status, "ongoing"}})

CountStatus(threads, status) ==
    Cardinality({i \in 1..Len(threads) : threads[i].resolution_status = status})

\* Mutant: the division by total_threads without the floor of 1
ThreadDivisorUnguarded(total_threads) == total_threads

\* max(total_threads, 1)
ThreadDivisor(total_threads) == IF total_threads > 1 THEN total_threads ELSE 1

calculate_conversation_metrics(threads, comments) ==
    [total_threads |-> Len(threads),
     resolved_threads |-> CountStatus(threads, "resolved"),
     unresolved_threads |-> CountStatus(threads, "unresolved"),
     avg_responses_per_thread |->
        Ratio(SumLen(threads), ThreadDivisor(Len(threads))),
     response_time_avg |-> 0,
     most_active_reviewers |-> MostActiveReviewers(comments),
     communication_tone |-> assess_communication_tone(comments)]

ConflictKeywords == <<<<"d", "i", "s", "a", "g", "r", "e", "e">>, <<"w", "r", "o", "n", "g">>, <<"i", "n", "c", "o", "r", "r", "e", "c", "t">>, <<"n", "o">>, <<"b", "u", "t">>, <<"h", "o", "w", "e", "v", "e", "r">>>>

CollaborationKeywords == <<<<"a", "g", "r", "e", "e">>, <<"y", "e", "s">>, <<"g", "o", "o", "d", " ", "p", "o", "i", "n", "t">>, <<"t", "h", "a", "n", "k", "s">>, <<"e", "x", "a", "c", "t", "l", "y">>>>

\* the authors of the comments that contain one of the keywords, one entry
\* per comment
AuthorsWith(comments, keywords) ==
    LET hits == SelectSeq(comments, LAMBDA c : AnyIn(keywords, Lower(c.body)))
    IN  [i \in 1..Len(hits) |-> hits[i].author]

\* Mutant: the quotient without the test for reviewer comments
AuthorResponsivenessUnguarded(author_responses, reviewer_comments) ==
    Ratio(Len(author_responses), Len(reviewer_comments))

\* 0.0, and if reviewer_comments: len(author_responses) / len(reviewer_comments)
AuthorResponsiveness(author_responses, reviewer_comments) ==
    IF reviewer_comments # <<>>
    THEN Ratio(Len(author_responses), Len(reviewer_comments))
    ELSE Ratio(0, 1)

analyze_communication_patterns(comments, pr_author) ==
    LET author_responses == SelectSeq(comments, LAMBDA c : c.author = pr_author)
        reviewer_comments == SelectSeq(comments, LAMBDA c : c.author # pr_author)
    IN  [author_responsiveness |->
            AuthorResponsiveness(author_responses, reviewer_comments),
         reviewer_follow_up_rate |-> 0,
         discussion_depth |-> 0,
         conflict_indicators |-> AuthorsWith(comments, ConflictKeywords),
         collaboration_indicators |-> AuthorsWith(comments, CollaborationKeywords)]

\* The summary string, as the list summary_parts before "\n".join: each
\* part is the record of the values formatted into it
generate_conversation_summary(threads, reviewer_profiles) ==
    LET major_threads == SelectSeq(threads, LAMBDA t : Len(t.comments) >= 3)
        top == SubSeq(major_threads, 1,
                      IF Len(major_threads) > 3 THEN 3 ELSE Len(major_threads))
        active == SelectSeq(reviewer_profiles,
                            LAMBDA p : p.engagement_level \in {"high", "medium"})
        resolved_count == CountStatus(threads, "resolved")
    IN  <<[part |-> "overview",
           participants |-> Len(reviewer_profiles) + 1,
           threads |-> Len(threads)]>>
        \o (IF major_threads # <<>>
            THEN <<[part |-> "major_header"]>>
                 \o [i \in 1..Len(top) |->
                        [part |-> "major", topic |-> top[i].topic,
                         exchanges |-> Len(top[i].comments),
                         status |-> top[i].resolution_status]]
            ELSE <<>>)
        \o (IF active # <<>>
            THEN <<[part |-> "active_reviewers",
                    names |-> [i \in 1..Len(active) |-> active[i].name]]>>
            ELSE <<>>)
        \o (IF threads # <<>>
            THEN <<[part |-> "resolution_rate",
                    rate |-> Ratio(resolved_count * 100, Len(threads)),
                    resolved |-> resolved_count, total |-> Len(threads)]>>
            ELSE <<>>)

analyze_conversations(pr_data) ==
    LET threads == identify_conversation_threads(pr_data.comments)
        reviewer_profiles == analyze_reviewer_profiles(pr_data.comments, pr_data.author)
    IN  [threads |-> threads,
         reviewer_profiles |-> reviewer_profiles,
         metrics |-> calculate_conversation_metrics(threads, pr_data.comments),
         patterns |-> analyze_communication_patterns(pr_data.comments, pr_data.author),
         summary |-> generate_conversation_summary(threads, reviewer_profiles)]

-----------------------------------------------------------------------------
(* timeline_analyzer.py                                                    *)

\* whether datetime.fromisoformat(s.replace('Z', '+00:00')) returns; it
\* raises ValueError otherwise
ParseOk(s) == s.k = "iso"

\* the datetime it returns, in hours
fromisoformat(s) == s.d * 24 + s.h

\* datetime.date(): the day number
DateOf(t) == t \div 24

\* the truth value of an Optional[str]: None and "" are false
Truthy(opt) == opt # None /\ opt[1].k # "empty"

IsReviewType(comment) == comment.type \in {TypeReviewComment, TypeReview}

\* The result of a call: it raised, or it returned value
Raised == [raised |-> TRUE, value |-> None]

Returned(v) == [raised |-> FALSE, value |-> Some(v)]

\* the two loops of _find_first_review over the timestamp strings it reads,
\* in order; earliest is None or Some(datetime)
RECURSIVE EarliestOf(_, _)
EarliestOf(strings, earliest) ==
    IF strings = <<>> THEN Returned(earliest)
    ELSE IF ~ParseOk(Head(strings)) THEN Raised
    ELSE LET t == fromisoformat(Head(strings))
         IN  EarliestOf(Tail(strings),
                        IF earliest = None \/ t < earliest[1] THEN Some(t) ELSE earliest)

\* Mutant: the loop over pr_data.reviews is missing
ReviewStringsCommentsOnly(pr_data) ==
    LET cs == SelectSeq(pr_data.comments, IsReviewType)
    IN  [i \in 1..Len(cs) |-> cs[i].created_at]

\* the timestamp strings _find_first_review parses: created_at of the
\* review-type comments, then the truthy submitted_at of the reviews
ReviewStrings(pr_data) ==
    LET cs == SelectSeq(pr_data.comments, IsReviewType)
        rs == SelectSeq(pr_data.reviews, LAMBDA r : Truthy(r.submitted_at))
    IN  [i \in 1..Len(cs) |-> cs[i].created_at]
        \o [i \in 1..Len(rs) |-> rs[i].submitted_at[1]]

find_first_review(pr_data) == EarliestOf(ReviewStrings(pr_data), None)

\* Mutant: every calendar day from the first to the last day of activity
SortedDatesEveryDay(days) ==
    IF days = {} THEN <<>>
    ELSE [i \in 1..(Max(days) - Min(days) + 1) |-> Min(days) + i - 1]

\* the ascending list of a set of day numbers
RECURSIVE SortedDates(_)
SortedDates(days) ==
    IF days = {} THEN <<>>
    ELSE <<Min(days)>> \o SortedDates(days \ {Min(days)})

\* Mutant: return cycles, without the floor of 1
CycleFloorMissing(cycles) == cycles

\* max(1, cycles)
CycleFloor(cycles) == IF cycles > 1 THEN cycles ELSE 1

count_review_cycles(pr_data) ==
    LET cs == SelectSeq(pr_data.comments, IsReviewType)
        review_strings == [i \in 1..Len(cs) |-> cs[i].created_at]
        commit_strings == [i \in 1..Len(pr_data.commits) |-> pr_data.commits[i].date]
        all_strings == review_strings \o commit_strings
    IN  IF \E i \in 1..Len(all_strings) : ~ParseOk(all_strings[i]) THEN Raised
        ELSE LET review_days == [i \in 1..Len(review_strings) |->
                                    DateOf(fromisoformat(review_strings[i]))]
                 commit_days == [i \in 1..Len(commit_strings) |->
                                    DateOf(fromisoformat(commit_strings[i]))]
                 reviews_on(d) == Cardinality({i \in 1..Len(review_days) : review_days[i] = d})
                 commits_on(d) == Cardinality({i \in 1..Len(commit_days) : commit_days[i] = d})
                 sorted_dates ==
                    SortedDates({review_days[i] : i \in 1..Len(review_days)}
                                \cup {commit_days[i] : i \in 1..Len(commit_days)})
                 cycles ==
                    Cardinality({i \in 1..(Len(sorted_dates) - 1) :
                                    /\ reviews_on(sorted_dates[i]) > 0
                                    /\ commits_on(sorted_dates[i + 1]) > 0})
             IN  Returned(CycleFloor(cycles))

\* Mutant: the division by timedelta.days without the floor of 1
calculate_comment_frequency_unfloored(pr_data, start_time, end_time) ==
    Ratio(Len(pr_data.comments), (end_time - start_time) \div 24)

calculate_comment_frequency(pr_data, start_time, end_time) ==
    LET days == (end_time - start_time) \div 24
        total_days == IF days > 1 THEN days ELSE 1
    IN  Ratio(Len(pr_data.comments), total_days)

\* Mutant: timedelta.days in hours, instead of total_seconds() / 3600
TimeToFirstReviewWholeDays(first_review_at, created_at) ==
    IF first_review_at # None
    THEN Some(((first_review_at[1] - created_at) \div 24) * 24)
    ELSE None

\* time_to_first_review = None; if first_review_at: ... (a datetime is
\* always true)
TimeToFirstReview(first_review_at, created_at) ==
    IF first_review_at # None THEN Some(first_review_at[1] - created_at) ELSE None

\* Mutant: 0 stands for "not merged"
TimeToMergeZeroPlaceholder(merged_at, created_at) ==
    IF merged_at # None THEN Some(merged_at[1] - created_at) ELSE Some(0)

\* time_to_merge = None; if merged_at: ...
TimeToMerge(merged_at, created_at) ==
    IF merged_at # None THEN Some(merged_at[1] - created_at) ELSE None

\* Mutant: an unparseable merged_at or closed_at is taken as absent
ParseOptionalLenient(opt) ==
    IF Truthy(opt) /\ ParseOk(opt[1])
    THEN Returned(Some(fromisoformat(opt[1])))
    ELSE Returned(None)

\* merged_at = None; if hasattr(...) and pr_data.merged_at: parse it.
\* Returns None or Some(datetime); raises on a truthy unparseable string
ParseOptional(opt) ==
    IF Truthy(opt)
    THEN (IF ParseOk(opt[1]) THEN Returned(Some(fromisoformat(opt[1]))) ELSE Raised)
    ELSE Returned(None)

analyze_timeline(pr_data) ==
    IF ~ParseOk(pr_data.created_at) THEN Raised
    ELSE LET created_at == fromisoformat(pr_data.created_at)
             first_review == find_first_review(pr_data)
             merged == ParseOptional(pr_data.merged_at)
             closed == ParseOptional(pr_data.closed_at)
             review_cycles == count_review_cycles(pr_data)
         IN  IF first_review.raised THEN Raised
             ELSE IF merged.raised THEN Raised
             ELSE IF closed.raised THEN Raised
             ELSE IF ~ParseOk(pr_data.updated_at) THEN Raised
             ELSE IF review_cycles.raised THEN Raised
             ELSE LET last_activity_at == fromisoformat(pr_data.updated_at)
                      first_review_at == first_review.value[1]
                      merged_at == merged.value[1]
                      closed_at == closed.value[1]
                  IN  Returned(
                        [created_at |-> created_at,
                         first_review_at |-> first_review_at,
                         last_activity_at |-> last_activity_at,
                         merged_at |-> merged_at,
                         closed_at |-> closed_at,
                         time_to_first_review |->
                            TimeToFirstReview(first_review_at, created_at),
                         time_to_merge |-> TimeToMerge(merged_at, created_at),
                         total_lifecycle |-> last_activity_at - created_at,
                         review_cycles |-> review_cycles.value[1],
                         comment_frequency |->
                            calculate_comment_frequency(pr_data, created_at,
                                                        last_activity_at)])

\* the activities list of analyze_activity_periods before the sort: one
\* entry for every comment, then one for every commit, with the timestamp
\* string still unparsed
ActivityStrings(pr_data) ==
    [i \in 1..Len(pr_data.comments) |->
        [string |-> pr_data.comments[i].created_at, type |-> "comment",
         author |-> pr_data.comments[i].author,
         activity |-> pr_data.comments[i].type]]
    \o [i \in 1..Len(pr_data.commits) |->
        [string |-> pr_data.commits[i].date, type |-> "commit",
         author |-> pr_data.commits[i].author, activity |-> <<"c", "o", "m", "m", "i", "t">>]]

\* activities.sort(key=lambda x: x['timestamp']): stable, in place on the
\* local list
RECURSIVE SortByTimestamp(_)
SortByTimestamp(activities) ==
    IF activities = <<>> THEN <<>>
    ELSE LET n == Len(activities)
             x == activities[n]
             rest == SortByTimestamp(SubSeq(activities, 1, n - 1))
             m == Cardinality({i \in 1..Len(rest) :
                                  rest[i].timestamp <= x.timestamp})
         IN  SubSeq(rest, 1, m) \o <<x>> \o SubSeq(rest, m + 1, Len(rest))

\* Mutant: as many commits as comments are a revision
determine_period_type_ties_to_revision(activities) ==
    LET commit_count == Cardinality({i \in 1..Len(activities) :
                                        activities[i].type = "commit"})
        comment_count == Cardinality({i \in 1..Len(activities) :
                                         activities[i].type = "comment"})
    IN  IF commit_count >= comment_count THEN "revision"
        ELSE IF comment_count > 0 THEN "review"
        ELSE "discussion"

\* Mutant: a period without commits is a discussion
determine_period_type_review_needs_commit(activities) ==
    LET commit_count == Cardinality({i \in 1..Len(activities) :
                                        activities[i].type = "commit"})
        comment_count == Cardinality({i \in 1..Len(activities) :
                                         activities[i].type = "comment"})
    IN  IF commit_count > comment_count THEN "revision"
        ELSE IF commit_count > 0 THEN "review"
        ELSE "discussion"

determine_period_type(activities) ==
    LET commit_count == Cardinality({i \in 1..Len(activities) :
                                        activities[i].type = "commit"})
        comment_count == Cardinality({i \in 1..Len(activities) :
                                         activities[i].type = "comment"})
    IN  IF commit_count > comment_count THEN "revision"
        ELSE IF comment_count > 0 THEN "review"
        ELSE "discussion"

\* ActivityPeriod(start=current_period_start, end=..., activity_type=...,
\* participants=list(set(...))); current_period_start is the timestamp of
\* the first activity of the period
MakePeriod(current_period_activities) ==
    [start |-> current_period_activities[1].timestamp,
     end |-> current_period_activities[Len(current_period_activities)].timestamp,
     activity_type |-> determine_period_type(current_period_activities),
     participants |-> {current_period_activities[i].author :
                          i \in 1..Len(current_period_activities)}]

\* Mutant: a gap of exactly 24 hours starts a new period too
GapSplitsAtOneDay(time_gap) == time_gap >= 24

\* if time_gap > 24
GapSplits(time_gap) == time_gap > 24

\* for activity in activities[1:]: ...; then the final period
RECURSIVE GroupIntoPeriods(_, _, _)
GroupIntoPeriods(activities, current_period_activities, found) ==
    IF activities = <<>> THEN Append(found, MakePeriod(current_period_activities))
    ELSE LET activity == Head(activities)
             last == current_period_activities[Len(current_period_activities)]
             time_gap == activity.timestamp - last.timestamp
         IN  IF GapSplits(time_gap)
             THEN GroupIntoPeriods(Tail(activities), <<activity>>,
                                   Append(found, MakePeriod(current_period_activities)))
             ELSE GroupIntoPeriods(Tail(activities),
                                   Append(current_period_activities, activity),
                                   found)

analyze_activity_periods(pr_data) ==
    LET strings == ActivityStrings(pr_data)
    IN  IF \E i \in 1..Len(strings) : ~ParseOk(strings[i].string) THEN Raised
        ELSE LET parsed == [i \in 1..Len(strings) |->
                              [timestamp |-> fromisoformat(strings[i].string),
                               type |-> strings[i].type,
                               author |-> strings[i].author,
                               activity |-> strings[i].activity]]
                 activities == SortByTimestamp(parsed)
             IN  IF activities = <<>> THEN Returned(<<>>)
                 ELSE Returned(GroupIntoPeriods(Tail(activities),
                                                <<activities[1]>>, <<>>))

-----------------------------------------------------------------------------
(* llm_client.py: _parse_analysis_response                                 *)

\* The line feed, and the characters a TLA+ string cannot hold: the bullet
\* U+2022, and the three characters U+00E2 U+20AC U+00A2 that stand in the
\* source where a bullet was meant
LineFeed == "LF"

Bullet == "U+2022"

MisencodedBullet == <<"U+00E2", "U+20AC", "U+00A2">>

UpperChar(c) ==
    IF InSeq(c, LowerAlpha)
    THEN UpperAlpha[CHOOSE i \in 1..26 : LowerAlpha[i] = c]
    ELSE c

\* str.upper()
Upper(s) == [i \in 1..Len(s) |-> UpperChar(s[i])]

\* line.startswith(prefix)
StartsWith(line, prefix) ==
    Len(line) >= Len(prefix) /\ SubSeq(line, 1, Len(prefix)) = prefix

\* analysis_text.split('\n')
RECURSIVE SplitLines(_)
SplitLines(text) ==
    LET feeds == Positions(text, LineFeed)
    IN  IF feeds = {} THEN <<text>>
        ELSE <<SubSeq(text, 1, Min(feeds) - 1)>>
             \o SplitLines(SubSeq(text, Min(feeds) + 1, Len(text)))

\* the section headers, in the order of the if/elif chain, with the key of
\* the section each one opens
SectionMarkers ==
    <<[marker |-> <<"#", "#", "#", " ", "S", "U", "M", "M", "A", "R", "Y">>, section |-> "summary"],
      [marker |-> <<"#", "#", "#", " ", "K", "E", "Y", " ", "C", "H", "A", "N", "G", "E", "S">>, section |-> "key_changes"],
      [marker |-> <<"#", "#", "#", " ", "C", "O", "M", "M", "E", "N", "T", " ", "A", "N", "A", "L", "Y", "S", "I", "S">>, section |-> "comment_analysis"],
      [marker |-> <<"#", "#", "#", " ", "D", "E", "V", "E", "L", "O", "P", "E", "R", " ", "M", "I", "S", "T", "A", "K", "E", "S">>, section |-> "developer_mistakes"],
      [marker |-> <<"#", "#", "#", " ", "C", "O", "D", "E", " ", "Q", "U", "A", "L", "I", "T", "Y", " ", "I", "S", "S", "U", "E", "S">>, section |-> "code_quality_issues"],
      [marker |-> <<"#", "#", "#", " ", "S", "U", "G", "G", "E", "S", "T", "I", "O", "N", "S">>, section |-> "suggestions"],
      [marker |-> <<"#", "#", "#", " ", "O", "V", "E", "R", "A", "L", "L", " ", "A", "S", "S", "E", "S", "S", "M", "E", "N", "T">>, section |-> "overall_assessment"]>>

\* Mutant: the header is looked for in the line as written
MarkerInLineCaseSensitive(marker, line) == Contains(line, marker)

\* '### SUMMARY' in line.upper()
MarkerInLine(marker, line) == Contains(Upper(line), marker)

\* the section the first matching branch of the chain opens, None when the
\* line holds no header
DetectSection(line) ==
    LET hits == {i \in 1..Len(SectionMarkers) :
                    MarkerInLine(SectionMarkers[i].marker, line)}
    IN  IF hits = {} THEN None ELSE Some(SectionMarkers[Min(hits)].section)

ListSections == {"key_changes", "developer_mistakes", "code_quality_issues", "suggestions"}

\* sections = {'summary': '', 'key_changes': [], ...}
EmptySections ==
    [summary |-> <<>>, key_changes |-> <<>>, comment_analysis |-> <<>>,
     developer_mistakes |-> <<>>, code_quality_issues |-> <<>>,
     suggestions |-> <<>>, overall_assessment |-> <<>>]

\* the items a non-empty line adds to a list section: line[1:].strip() after
\* '-', '*' or the three-character prefix, the line itself when it does
\* not start with '#', nothing otherwise
ListItemsOf(line) ==
    IF \/ StartsWith(line, <<"-">>)
       \/ StartsWith(line, <<"*">>)
       \/ StartsWith(line, MisencodedBullet)
    THEN <<Strip(Tail(line))>>
    ELSE IF ~StartsWith(line, <<"#">>) THEN <<line>>
    ELSE <<>>

\* sections[current_section] += '\n' (when not empty); += line
AppendText(text, line) ==
    IF text # <<>> THEN text \o <<LineFeed>> \o line ELSE line

\* "Add content to current section"
AddContent(sections, current_section, line) ==
    IF current_section \in ListSections
    THEN [sections EXCEPT ![current_section] = @ \o ListItemsOf(line)]
    ELSE [sections EXCEPT ![current_section] = AppendText(@, line)]

\* for line in lines: ...
RECURSIVE ParseLines(_, _, _)
ParseLines(lines, current_section, sections) ==
    IF lines = <<>> THEN sections
    ELSE LET line == Strip(Head(lines))
             header == DetectSection(line)
         IN  IF header # None THEN ParseLines(Tail(lines), header, sections)
             ELSE IF current_section # None /\ line # <<>>
             THEN ParseLines(Tail(lines), current_section,
                             AddContent(sections, current_section[1], line))
             ELSE ParseLines(Tail(lines), current_section, sections)

parse_analysis_response(analysis_text) ==
    ParseLines(SplitLines(analysis_text), None, EmptySections)

-----------------------------------------------------------------------------
(* The snapshot and the calls on it                                        *)

PRAuthor == "dev"

\* A Comment as _fetch_all_comments builds it; FetchComment gives the id
Comment(author, body, created_at, type) ==
    [id |-> 0, author |-> author, body |-> body, created_at |-> created_at,
     type |-> type]

\* PRData with no comments, reviews or commits
EmptySnapshot(created_at, updated_at, merged_at, closed_at) ==
    [author |-> PRAuthor, created_at |-> created_at, updated_at |-> updated_at,
     merged_at |-> merged_at, closed_at |-> closed_at,
     comments |-> <<>>, reviews |-> <<>>, commits |-> <<>>]

\* neither analyze_pr nor analyze_multiple_prs has been called
NotCalled == [pc |-> "not_called"]

\* no answer of the LLM yet: nothing to parse, nothing parsed
NoResponse == [analysis_text |-> <<>>, result |-> None]

NotAnalyzed == conv = None /\ tl = None /\ periods = None

\* fetch_pr_data finds one more comment on the PR
FetchComment(pool, max) ==
    /\ NotAnalyzed
    /\ Len(snap.comments) + Len(snap.reviews) + Len(snap.commits) < max
    /\ \E c \in pool :
          snap' = [snap EXCEPT !.comments =
                      Append(@, [c EXCEPT !.id = Len(snap.comments) + 1])]
    /\ UNCHANGED <<conv, tl, periods, llm, run>>

\* fetch_pr_data finds one more review record
FetchReview(pool, max) ==
    /\ NotAnalyzed
    /\ Len(snap.comments) + Len(snap.reviews) + Len(snap.commits) < max
    /\ \E t \in pool :
          snap' = [snap EXCEPT !.reviews = Append(@, [submitted_at |-> t])]
    /\ UNCHANGED <<conv, tl, periods, llm, run>>

\* fetch_pr_data finds one more commit
FetchCommit(pool, max) ==
    /\ NotAnalyzed
    /\ Len(snap.comments) + Len(snap.reviews) + Len(snap.commits) < max
    /\ \E t \in pool :
          snap' = [snap EXCEPT !.commits = Append(@, [date |-> t, author |-> PRAuthor])]
    /\ UNCHANGED <<conv, tl, periods, llm, run>>

\* main.py: self.conversation_analyzer.analyze_conversations(pr_data)
AnalyzeConversations ==
    /\ conv = None
    /\ conv' = Some(analyze_conversations(snap))
    /\ UNCHANGED <<snap, tl, periods, llm, run>>

\* main.py: self.timeline_analyzer.analyze_timeline(pr_data)
AnalyzeTimeline ==
    /\ tl = None
    /\ tl' = Some(analyze_timeline(snap))
    /\ UNCHANGED <<snap, conv, periods, llm, run>>

\* Mutant: the comments of the snapshot are sorted in place
AnalyzeActivityPeriodsSortingSnapshot ==
    /\ periods = None
    /\ periods' = Some(analyze_activity_periods(snap))
    /\ snap' = [snap EXCEPT !.comments = SortByCreatedAt(@)]
    /\ UNCHANGED <<conv, tl, llm, run>>

\* TimelineAnalyzer().analyze_activity_periods(pr_data)
AnalyzeActivityPeriods ==
    /\ periods = None
    /\ periods' = Some(analyze_activity_periods(snap))
    /\ UNCHANGED <<snap, conv, tl, llm, run>>

\* the number of lines of a text that is not empty
LineCount(text) == Cardinality(Positions(text, LineFeed)) + 1

\* the answer of the LLM (response['message']['content']) grows by a line
RespondLine(pool, max) ==
    /\ llm.result = None
    /\ llm.analysis_text = <<>> \/ LineCount(llm.analysis_text) < max
    /\ \E line \in pool :
          llm' = [llm EXCEPT !.analysis_text =
                     IF @ = <<>> THEN line ELSE @ \o <<LineFeed>> \o line]
    /\ UNCHANGED <<snap, conv, tl, periods, run>>

\* llm_client.py: return self._parse_analysis_response(analysis_text)
ParseResponse ==
    /\ llm.result = None
    /\ llm' = [llm EXCEPT !.result = Some(parse_analysis_response(llm.analysis_text))]
    /\ UNCHANGED <<snap, conv, tl, periods, run>>

-----------------------------------------------------------------------------
(* Spec: conversation threads of a PR whose comments come from ThreadPool  *)

MaxComments == 3

ThreadPool ==
    {Comment("bob", <<"C", "o", "u", "l", "d", " ", "w", "e", " ", "r", "e", "f", "a", "c", "t", "o", "r", " ", "BACKTICK", "u", "t", "i", "l", "s", ".", "p", "y", "BACKTICK", " ", "t", "o", " ", "h", "a", "n", "d", "l", "e", " ", "t", "h", "i", "s", "?">>, Iso(1, 2), TypeReviewComment),
     Comment("dev", <<"p", "l", "e", "a", "s", "e", " ", "s", "e", "e", " ", "BACKTICK", "u", "t", "i", "l", "s", ".", "p", "y", "BACKTICK", ".", " ", "D", "o", "n", "e">>, Iso(1, 1), TypeIssue),
     Comment("carol", <<"@", "b", "o", "b", " ", "l", "o", "o", "k", "s", " ", "g", "o", "o", "d">>, Iso(1, 1), TypeIssue),
     Comment("bob", <<"L", "G", "T", "M", ",", " ", "w", "h", "y", "?">>, Iso(1, 3), TypeReview),
     Comment("dev", <<"h", "o", "w", " ", "c", "o", "u", "l", "d", " ", "i", "t">>, Iso(1, 1), TypeIssue),
     Comment("carol", <<"c", "o", "n", "s", "i", "d", "e", "r", " ", "i", "t">>, Iso(1, 2), TypeReviewComment),
     Comment("dev", <<"o", "k">>, Iso(1, 1), TypeIssue),
     Comment("bob", <<"o", "k">>, EmptyStr, TypeReview),
     Comment("carol", <<"i", "n", " ", "BACKTICK", "x", "BACKTICK", " ", "BACKTICK", "y", ".", "p", "y", "BACKTICK", " ", "@", "a", "l">>, Iso(1, 3), TypeReviewComment),
     Comment("dev", <<"BACKTICK", "v", "1", ".", "2", "BACKTICK", " ", "a", "@", "b", "_", "2", " ", "@", "c">>, Iso(1, 2), TypeIssue)}

Init ==
    /\ snap = EmptySnapshot(Iso(1, 0), Iso(3, 0), None, None)
    /\ conv = None
    /\ tl = None
    /\ periods = None
    /\ llm = NoResponse
    /\ run = NotCalled

FetchThreadComment == FetchComment(ThreadPool, MaxComments)

Next == FetchThreadComment \/ AnalyzeConversations

Spec == Init /\ [][Next]_vars

-----------------------------------------------------------------------------
(* Claims checked under Spec                                               *)

Threads == conv[1].threads

\* the comments of all threads, as (thread index, position) pairs
ThreadSlots ==
    UNION {{<<t, j>> : j \in 1..Len(Threads[t].comments)} : t \in 1..Len(Threads)}

\* C1: the threads returned by analyze_conversations partition the input
\* comments: every input comment is in the comment sequence of exactly one
\* thread, at exactly one position; no thread holds a comment that is not in
\* the input; no thread is empty.
C1_ThreadsPartitionComments ==
    conv # None =>
        /\ \A i \in 1..Len(snap.comments) :
              Cardinality({s \in ThreadSlots :
                  Threads[s[1]].comments[s[2]] = snap.comments[i]}) = 1
        /\ \A s \in ThreadSlots :
              \E i \in 1..Len(snap.comments) :
                  Threads[s[1]].comments[s[2]] = snap.comments[i]
        /\ \A t \in 1..Len(Threads) : Len(Threads[t].comments) > 0

\* C1 witness: three comments were analyzed into two threads, one of them
\* with two comments
C1_Witness ==
    /\ conv # None
    /\ Len(snap.comments) = 3
    /\ Len(Threads) = 2
    /\ \E t \in 1..Len(Threads) : Len(Threads[t].comments) = 2

\* C4: for a snapshot with zero comments analyze_conversations returns (no
\* division by zero) zero threads, zero reviewer profiles,
\* avg_responses_per_thread = 0, total/resolved/unresolved thread counts 0,
\* author_responsiveness 0.0 and a summary: the one sentence of the overview.
C4_EmptyCommentList ==
    (conv # None /\ snap.comments = <<>>) =>
        /\ conv[1].threads = <<>>
        /\ conv[1].reviewer_profiles = <<>>
        /\ conv[1].metrics.avg_responses_per_thread.num = 0
        /\ conv[1].metrics.avg_responses_per_thread.den > 0
        /\ conv[1].metrics.total_threads = 0
        /\ conv[1].metrics.resolved_threads = 0
        /\ conv[1].metrics.unresolved_threads = 0
        /\ conv[1].patterns.author_responsiveness.num = 0
        /\ conv[1].patterns.author_responsiveness.den > 0
        /\ conv[1].summary = <<[part |-> "overview", participants |-> 1, threads |-> 0]>>

\* C4 witness: analyze_conversations has returned for a snapshot without
\* comments
C4_Witness == conv # None /\ snap.comments = <<>>

\* C5 (as claimed): for every snapshot, also one without comments, the
\* communication_tone of the metrics is collaborative, directive or mixed.
C5_ToneInDocumentedSet ==
    conv # None =>
        conv[1].metrics.communication_tone \in {"collaborative", "directive", "mixed"}

ScenarioBBody == <<"C", "o", "u", "l", "d", " ", "w", "e", " ", "r", "e", "f", "a", "c", "t", "o", "r", " ", "BACKTICK", "u", "t", "i", "l", "s", ".", "p", "y", "BACKTICK", " ", "t", "o", " ", "h", "a", "n", "d", "l", "e", " ", "t", "h", "i", "s", "?">>

\* a backtick-delimited token <non-empty>.<letters> starts at position i
C6_FileTokenAt(body, i) ==
    /\ body[i] = Backtick
    /\ \E j \in (i + 4)..Len(body) :
          /\ body[j] = Backtick
          /\ \A q \in (i + 1)..(j - 1) : body[q] # Backtick
          /\ \E p \in (i + 2)..(j - 2) :
                /\ body[p] = "."
                /\ \A q \in (p + 1)..(j - 1) : IsLetter(body[q])

\* the text of the first file token of the body
C6_FileName(body) ==
    LET i == Min({x \in 1..Len(body) : C6_FileTokenAt(body, x)})
        j == Min({x \in (i + 1)..Len(body) : body[x] = Backtick})
    IN  SubSeq(body, i + 1, j - 1)

\* an '@' followed by a word character is at position i
C6_MentionAt(body, i) == body[i] = "@" /\ i < Len(body) /\ IsWordChar(body[i + 1])

\* the handle of the first mention of the body
C6_Handle(body) ==
    LET i == Min({x \in 1..Len(body) : C6_MentionAt(body, x)})
        stop == Min({x \in (i + 1)..(Len(body) + 1) :
                        x = Len(body) + 1 \/ ~IsWordChar(body[x])})
    IN  SubSeq(body, i + 1, stop - 1)

\* the key the first matching rule gives, from the body and the type alone
C6_ExpectedKey(body, type) ==
    LET low == Lower(body)
    IN  CASE \E i \in 1..Len(body) : C6_FileTokenAt(body, i) ->
                <<"f", "i", "l", "e", "_">> \o C6_FileName(body)
          [] \E i \in 1..Len(body) : C6_MentionAt(body, i) ->
                <<"m", "e", "n", "t", "i", "o", "n", "_">> \o C6_Handle(body)
          [] AnyIn(<<<<"l", "g", "t", "m">>, <<"l", "o", "o", "k", "s", " ", "g", "o", "o", "d">>, <<"a", "p", "p", "r", "o", "v", "e", "d">>>>, low) -> <<"a", "p", "p", "r", "o", "v", "a", "l">>
          [] AnyIn(<<<<"q", "u", "e", "s", "t", "i", "o", "n">>, <<"?">>, <<"w", "h", "y">>, <<"h", "o", "w">>>>, low) -> <<"q", "u", "e", "s", "t", "i", "o", "n", "s">>
          [] AnyIn(<<<<"s", "u", "g", "g", "e", "s", "t">>, <<"c", "o", "u", "l", "d">>, <<"m", "i", "g", "h", "t">>, <<"c", "o", "n", "s", "i", "d", "e", "r">>>>, low) -> <<"s", "u", "g", "g", "e", "s", "t", "i", "o", "n", "s">>
          [] OTHER -> <<"g", "e", "n", "e", "r", "a", "l", "_">> \o type

\* C6: the thread key of a comment is decided by its own body and type, by
\* the first matching rule in the order file token, mention, approval
\* keyword, question keyword, suggestion keyword, general_<type>; the body
\* "Could we refactor `utils.py` to handle this?" is keyed file_utils.py.
C6_ThreadKeyByFirstRule ==
    conv # None =>
        \A s \in ThreadSlots :
            LET c == Threads[s[1]].comments[s[2]]
            IN  /\ Threads[s[1]].thread_id = C6_ExpectedKey(c.body, c.type)
                /\ c.body = ScenarioBBody => Threads[s[1]].thread_id = <<"f", "i", "l", "e", "_", "u", "t", "i", "l", "s", ".", "p", "y">>

\* C6 witness: the scenario body is in the thread file_utils.py, and a
\* comment matching the approval and the question rule is in the thread
\* approval
C6_Witness ==
    /\ conv # None
    /\ \E s \in ThreadSlots :
          /\ Threads[s[1]].comments[s[2]].body = ScenarioBBody
          /\ Threads[s[1]].thread_id = <<"f", "i", "l", "e", "_", "u", "t", "i", "l", "s", ".", "p", "y">>
    /\ \E s \in ThreadSlots :
          /\ Threads[s[1]].comments[s[2]].body = <<"L", "G", "T", "M", ",", " ", "w", "h", "y", "?">>
          /\ Threads[s[1]].thread_id = <<"a", "p", "p", "r", "o", "v", "a", "l">>

-----------------------------------------------------------------------------
(* SpecResolution: comments of one general thread, with and without the    *)
(* resolution and ongoing keywords, and one comment of another thread      *)

MaxResolutionComments == 4

ThumbsUp == <<"U+1F44D">>

ResolutionPool ==
    {Comment("dev", <<"d", "o", "n", "e">>, Iso(1, 1), TypeIssue),
     Comment("bob", <<"w", "i", "l", "l", " ", "f", "i", "x", " ", "l", "a", "t", "e", "r">>, Iso(1, 2), TypeIssue),
     Comment("bob", <<"o", "k">>, Iso(1, 3), TypeIssue),
     Comment("carol", ThumbsUp, Iso(1, 4), TypeIssue),
     Comment("dev", <<"W", "i", "l", "l", " ", "b", "e", " ", "D", "O", "N", "E", " ", "l", "a", "t", "e", "r">>, Iso(1, 3), TypeIssue),
     Comment("carol", <<"w", "h", "y", "?", " ", "t", "h", "a", "n", "k", "s">>, Iso(1, 5), TypeIssue)}

FetchResolutionComment == FetchComment(ResolutionPool, MaxResolutionComments)

NextResolution == FetchResolutionComment \/ AnalyzeConversations

SpecResolution == Init /\ [][NextResolution]_vars

\* the last three (or fewer) comments of a thread, oldest first
C7_LastThree(t) ==
    LET cs == Threads[t].comments
    IN  [i \in 1..(IF Len(cs) > 3 THEN 3 ELSE Len(cs)) |->
            cs[Len(cs) - (IF Len(cs) > 3 THEN 3 ELSE Len(cs)) + i]]

C7_HasResolutionKeyword(c) ==
    AnyIn(<<<<"r", "e", "s", "o", "l", "v", "e", "d">>, <<"f", "i", "x", "e", "d">>, <<"d", "o", "n", "e">>, <<"t", "h", "a", "n", "k", "s">>, <<"l", "g", "t", "m">>, <<"m", "e", "r", "g", "e", "d">>>>, Lower(c.body))

C7_HasOngoingKeyword(c) ==
    AnyIn(<<<<"w", "i", "l", "l">>, <<"t", "o", "d", "o">>, <<"l", "a", "t", "e", "r">>, <<"n", "e", "x", "t">>>>, Lower(c.body))

\* C7: the resolution_status of a thread is decided by its chronologically
\* last three comments: the newest of them with a resolution or an ongoing
\* keyword decides ("resolved" if it has a resolution keyword, also beside
\* an ongoing one, else "ongoing"); without such a comment the status is
\* "unresolved".  Older comments have no effect.
C7_StatusFromLastThree ==
    conv # None =>
        \A t \in 1..Len(Threads) :
            LET last == C7_LastThree(t)
                hits == {i \in 1..Len(last) :
                            C7_HasResolutionKeyword(last[i]) \/ C7_HasOngoingKeyword(last[i])}
            IN  Threads[t].resolution_status =
                    IF hits = {} THEN "unresolved"
                    ELSE IF C7_HasResolutionKeyword(last[Max(hits)]) THEN "resolved"
                    ELSE "ongoing"

\* C7 witness: a thread of four comments whose oldest one says "done" and
\* whose last three are "will fix later", "ok", thumbs-up is "ongoing"
C7_Witness ==
    /\ conv # None
    /\ \E t \in 1..Len(Threads) :
          /\ Len(Threads[t].comments) = 4
          /\ Threads[t].comments[1].body = <<"d", "o", "n", "e">>
          /\ Threads[t].comments[2].body = <<"w", "i", "l", "l", " ", "f", "i", "x", " ", "l", "a", "t", "e", "r">>
          /\ Threads[t].comments[3].body = <<"o", "k">>
          /\ Threads[t].comments[4].body = ThumbsUp
          /\ Threads[t].resolution_status = "ongoing"

-----------------------------------------------------------------------------
(* SpecTone: comments with and without the positive, directive and         *)
(* collaborative indicators                                                *)

MaxToneComments == 3

TonePool ==
    {Comment("bob", <<"T", "h", "a", "n", "k", "s", "!">>, Iso(1, 1), TypeIssue),
     Comment("bob", <<"y", "o", "u", " ", "M", "U", "S", "T">>, Iso(1, 2), TypeReviewComment),
     Comment("carol", <<"c", "o", "u", "l", "d", " ", "w", "e">>, Iso(1, 3), TypeReviewComment),
     Comment("carol", <<"s", "h", "o", "u", "l", "d", " ", "w", "e", ",", " ", "p", "e", "r", "h", "a", "p", "s">>, Iso(1, 4), TypeIssue),
     Comment("dev", <<"m", "i", "g", "h", "t", " ", "b", "e", " ", "g", "o", "o", "d", ",", " ", "i", "f", " ", "r", "e", "q", "u", "i", "r", "e", "d">>, Iso(1, 5), TypeIssue),
     Comment("dev", <<"o", "k">>, Iso(1, 6), TypeIssue)}

FetchToneComment == FetchComment(TonePool, MaxToneComments)

NextTone == FetchToneComment \/ AnalyzeConversations

SpecTone == Init /\ [][NextTone]_vars

\* the number of input comments whose lowered body holds one of the words
C8_Count(words) ==
    Cardinality({i \in 1..Len(snap.comments) :
                    \E j \in 1..Len(words) : Contains(Lower(snap.comments[i].body), words[j])})

C8_Positive == C8_Count(<<<<"t", "h", "a", "n", "k", "s">>, <<"g", "r", "e", "a", "t">>, <<"g", "o", "o", "d">>, <<"e", "x", "c", "e", "l", "l", "e", "n", "t">>, <<"p", "e", "r", "f", "e", "c", "t">>, <<"n", "i", "c", "e">>>>)

C8_Directive == C8_Count(<<<<"m", "u", "s", "t">>, <<"s", "h", "o", "u", "l", "d">>, <<"n", "e", "e", "d", " ", "t", "o">>, <<"r", "e", "q", "u", "i", "r", "e", "d">>, <<"n", "e", "c", "e", "s", "s", "a", "r", "y">>>>)

C8_Collaborative ==
    C8_Count(<<<<"s", "u", "g", "g", "e", "s", "t">>, <<"p", "e", "r", "h", "a", "p", "s">>, <<"m", "i", "g", "h", "t">>, <<"c", "o", "u", "l", "d">>, <<"w", "h", "a", "t", " ", "d", "o", " ", "y", "o", "u", " ", "t", "h", "i", "n", "k">>>>)

\* C8: for a non-empty comment list the tone is "collaborative" iff
\* collaborative_count > directive_count and positive_count > 0, otherwise
\* "directive" iff directive_count > collaborative_count, otherwise "mixed";
\* equal collaborative and directive counts give "mixed".
C8_ToneFromCounts ==
    (conv # None /\ snap.comments # <<>>) =>
        LET tone == conv[1].metrics.communication_tone
        IN  /\ tone = "collaborative" <=>
                  (C8_Collaborative > C8_Directive /\ C8_Positive > 0)
            /\ tone = "directive" <=> C8_Directive > C8_Collaborative
            /\ tone = "mixed" <=>
                  ~(C8_Collaborative > C8_Directive /\ C8_Positive > 0)
                  /\ ~(C8_Directive > C8_Collaborative)
            /\ C8_Collaborative = C8_Directive => tone = "mixed"

\* C8 witness: two collaborative, two directive and one positive comment
\* give "mixed"
C8_Witness ==
    /\ conv # None
    /\ C8_Collaborative = 2
    /\ C8_Directive = 2
    /\ C8_Positive = 1
    /\ conv[1].metrics.communication_tone = "mixed"

-----------------------------------------------------------------------------
(* SpecTimeline: analyze_timeline on well-formed snapshots (every          *)
(* timestamp an ISO-8601 string)                                           *)

MaxEvents == 3

TimelineComment(created_at, type) == Comment("bob", <<"o", "k">>, created_at, type)

TimelineCommentPool ==
    {TimelineComment(t, type) :
        t \in {Iso(1, 6), Iso(2, 6)},
        type \in {TypeIssue, TypeReviewComment, TypeReview}}

TimelineReviewPool == {None, Some(Iso(1, 3))}

TimelineCommitPool == {Iso(1, 18), Iso(2, 18), Iso(4, 0)}

InitTimeline ==
    /\ \E updated_at \in {Iso(1, 12), Iso(3, 0)},
          merged_at \in {None, Some(Iso(1, 0)), Some(Iso(2, 12))},
          closed_at \in {None, Some(Iso(2, 12))} :
          snap = EmptySnapshot(Iso(1, 0), updated_at, merged_at, closed_at)
    /\ conv = None
    /\ tl = None
    /\ periods = None
    /\ llm = NoResponse
    /\ run = NotCalled

FetchTimelineComment == FetchComment(TimelineCommentPool, MaxEvents)

FetchTimelineReview == FetchReview(TimelineReviewPool, MaxEvents)

FetchTimelineCommit == FetchCommit(TimelineCommitPool, MaxEvents)

NextTimeline ==
    \/ FetchTimelineComment
    \/ FetchTimelineReview
    \/ FetchTimelineCommit
    \/ AnalyzeTimeline

SpecTimeline == InitTimeline /\ [][NextTimeline]_vars

TimelineReturned == tl # None /\ ~tl[1].raised

Metrics == tl[1].value[1]

\* C9: in the TimelineMetrics returned, time_to_merge is null exactly when
\* the merged_at of the snapshot is null, and time_to_first_review is null
\* exactly when first_review_at is null.
C9_NullDurations ==
    TimelineReturned =>
        /\ Metrics.time_to_merge = None <=> snap.merged_at = None
        /\ Metrics.time_to_first_review = None <=> Metrics.first_review_at = None

\* C9 witness: metrics of an unmerged PR with a review: time_to_merge is
\* null and time_to_first_review is not
C9_Witness ==
    /\ TimelineReturned
    /\ snap.merged_at = None
    /\ Metrics.time_to_merge = None
    /\ Metrics.first_review_at # None
    /\ Metrics.time_to_first_review # None

\* C10: review_cycles of the returned metrics is an integer >= 1, also for a
\* snapshot without comments and commits.
C10_ReviewCyclesFloor ==
    TimelineReturned => Metrics.review_cycles \in Nat /\ Metrics.review_cycles >= 1

\* C10 witness: metrics of a snapshot without comments and commits, with
\* review_cycles = 1
C10_Witness ==
    /\ TimelineReturned
    /\ snap.comments = <<>>
    /\ snap.commits = <<>>
    /\ Metrics.review_cycles = 1

-----------------------------------------------------------------------------
(* SpecMalformed: analyze_timeline on snapshots whose timestamps may be    *)
(* unparseable                                                             *)

MaxMalformedEvents == 2

MalformedCommentPool ==
    {TimelineComment(t, type) :
        t \in {Iso(1, 12), BadStr},
        type \in {TypeIssue, TypeReviewComment, TypeReview}}
    \cup {TimelineComment(EmptyStr, TypeReview)}

MalformedReviewPool == {None, Some(Iso(1, 6)), Some(BadStr)}

MalformedCommitPool == {Iso(2, 6), BadStr}

InitMalformed ==
    /\ \E created_at \in {Iso(1, 0), BadStr},
          updated_at \in {Iso(3, 0), BadStr},
          merged_at \in {None, Some(Iso(2, 0)), Some(BadStr), Some(EmptyStr)},
          closed_at \in {None, Some(Iso(2, 0)), Some(BadStr)} :
          snap = EmptySnapshot(created_at, updated_at, merged_at, closed_at)
    /\ conv = None
    /\ tl = None
    /\ periods = None
    /\ llm = NoResponse
    /\ run = NotCalled

FetchMalformedComment == FetchComment(MalformedCommentPool, MaxMalformedEvents)

FetchMalformedReview == FetchReview(MalformedReviewPool, MaxMalformedEvents)

FetchMalformedCommit == FetchCommit(MalformedCommitPool, MaxMalformedEvents)

NextMalformed ==
    \/ FetchMalformedComment
    \/ FetchMalformedReview
    \/ FetchMalformedCommit
    \/ AnalyzeTimeline

SpecMalformed == InitMalformed /\ [][NextMalformed]_vars

\* a timestamp string is there and is not ISO-8601
C3_Unparseable(s) == s.k # "iso"

\* some timestamp of the snapshot is unparseable, the created_at of the
\* comments of the given types included
C3_SomeUnparseable(types) ==
    \/ C3_Unparseable(snap.created_at)
    \/ C3_Unparseable(snap.updated_at)
    \/ snap.merged_at # None /\ snap.merged_at[1].k = "bad"
    \/ snap.closed_at # None /\ snap.closed_at[1].k = "bad"
    \/ \E i \in 1..Len(snap.comments) :
          snap.comments[i].type \in types /\ C3_Unparseable(snap.comments[i].created_at)
    \/ \E i \in 1..Len(snap.reviews) :
          snap.reviews[i].submitted_at # None /\ snap.reviews[i].submitted_at[1].k = "bad"
    \/ \E i \in 1..Len(snap.commits) : C3_Unparseable(snap.commits[i].date)

\* C3 (as claimed): if any timestamp of the snapshot is unparseable, the
\* created_at of a comment of any type included, analyze_timeline raises
\* and returns no TimelineMetrics.
C3_AnyUnparseableRaises ==
    (tl # None /\ C3_SomeUnparseable({TypeIssue, TypeReviewComment, TypeReview})) =>
        tl[1].raised /\ tl[1].value = None

\* C3 (amended): if a timestamp analyze_timeline reads is unparseable (the
\* created_at or updated_at of the PR, a non-empty merged_at or closed_at,
\* the created_at of a review_comment or review comment, a non-empty
\* submitted_at of a review record, the date of a commit), analyze_timeline
\* raises and returns no TimelineMetrics.
C3_ReadUnparseableRaises ==
    (tl # None /\ C3_SomeUnparseable({TypeReviewComment, TypeReview})) =>
        tl[1].raised /\ tl[1].value = None

\* C3 witness: analyze_timeline raised on a snapshot whose only unparseable
\* timestamp is a non-empty merged_at
C3_Witness ==
    /\ tl # None
    /\ tl[1].raised
    /\ snap.merged_at = Some(BadStr)
    /\ ParseOk(snap.created_at) /\ ParseOk(snap.updated_at)
    /\ snap.closed_at = None
    /\ \A i \in 1..Len(snap.comments) : ParseOk(snap.comments[i].created_at)
    /\ \A i \in 1..Len(snap.commits) : ParseOk(snap.commits[i].date)
    /\ \A i \in 1..Len(snap.reviews) : snap.reviews[i].submitted_at # Some(BadStr)
    /\ Len(snap.comments) + Len(snap.commits) + Len(snap.reviews) = 2

-----------------------------------------------------------------------------
(* SpecActivity: analyze_timeline and analyze_activity_periods on          *)
(* well-formed snapshots whose events spread over four days                *)

MaxActivityEvents == 5

ActivityCommentPool ==
    {Comment("dev", <<"o", "k">>, Iso(1, 3), TypeIssue),
     Comment("bob", <<"o", "k">>, Iso(1, 6), TypeReview),
     Comment("carol", <<"o", "k">>, Iso(2, 0), TypeReviewComment)}

ActivityReviewPool == {None, Some(Iso(1, 12))}

ActivityCommitPool == {Iso(2, 6), Iso(3, 7), Iso(4, 0)}

InitActivity ==
    /\ \E merged_at \in {None, Some(Iso(2, 12))} :
          snap = EmptySnapshot(Iso(1, 0), Iso(3, 0), merged_at, None)
    /\ conv = None
    /\ tl = None
    /\ periods = None
    /\ llm = NoResponse
    /\ run = NotCalled

FetchActivityComment == FetchComment(ActivityCommentPool, MaxActivityEvents)

FetchActivityReview == FetchReview(ActivityReviewPool, MaxActivityEvents)

FetchActivityCommit == FetchCommit(ActivityCommitPool, MaxActivityEvents)

NextActivity ==
    \/ FetchActivityComment
    \/ FetchActivityReview
    \/ FetchActivityCommit
    \/ AnalyzeTimeline
    \/ AnalyzeActivityPeriods

SpecActivity == InitActivity /\ [][NextActivity]_vars

\* the hours between the start of day 0 and an ISO-8601 timestamp string
C11_Hours(s) == 24 * s.d + s.h

\* the review timestamps of the snapshot: created_at of the review_comment
\* and review comments, submitted_at of the review records that have one
C11_ReviewTimes ==
    {C11_Hours(snap.comments[i].created_at) :
        i \in {j \in 1..Len(snap.comments) : snap.comments[j].type # TypeIssue}}
    \cup {C11_Hours(snap.reviews[i].submitted_at[1]) :
             i \in {j \in 1..Len(snap.reviews) : snap.reviews[j].submitted_at # None}}

\* Scenario A: created 01T00:00, one review_comment at 02T00:00, updated
\* 03T00:00, not merged
C11_ScenarioA ==
    /\ snap.created_at = Iso(1, 0)
    /\ snap.updated_at = Iso(3, 0)
    /\ snap.merged_at = None
    /\ Len(snap.comments) = 1
    /\ snap.comments[1].type = TypeReviewComment
    /\ snap.comments[1].created_at = Iso(2, 0)
    /\ snap.reviews = <<>>

\* C11: the durations of the returned TimelineMetrics are timestamp
\* differences in hours: total_lifecycle = updated_at - created_at, always
\* an integer number here; time_to_first_review = (earliest review time) -
\* created_at when a review exists; time_to_merge = merged_at - created_at
\* when merged; total_lifecycle >= 0 when last_activity_at >= created_at;
\* scenario A gives 24, null, 48.
C11_DurationsAreDifferences ==
    TimelineReturned =>
        /\ Metrics.total_lifecycle \in Int
        /\ Metrics.total_lifecycle =
              C11_Hours(snap.updated_at) - C11_Hours(snap.created_at)
        /\ C11_ReviewTimes # {} =>
              Metrics.time_to_first_review =
                 Some(Min(C11_ReviewTimes) - C11_Hours(snap.created_at))
        /\ snap.merged_at # None =>
              Metrics.time_to_merge =
                 Some(C11_Hours(snap.merged_at[1]) - C11_Hours(snap.created_at))
        /\ Metrics.last_activity_at >= Metrics.created_at =>
              Metrics.total_lifecycle >= 0
        /\ C11_ScenarioA =>
              /\ Metrics.time_to_first_review = Some(24)
              /\ Metrics.time_to_merge = None
              /\ Metrics.total_lifecycle = 48

\* C11 witness: the metrics of scenario A
C11_Witness ==
    /\ TimelineReturned
    /\ C11_ScenarioA
    /\ snap.commits = <<>>
    /\ Metrics.time_to_first_review = Some(24)
    /\ Metrics.total_lifecycle = 48

PeriodsReturned == periods # None /\ ~periods[1].raised

Periods == periods[1].value[1]

\* the times of all events of the snapshot: every comment and every commit
C12_EventTimes ==
    {C11_Hours(snap.comments[i].created_at) : i \in 1..Len(snap.comments)}
    \cup {C11_Hours(snap.commits[i].date) : i \in 1..Len(snap.commits)}

\* t and u are the times of two consecutive events of the sorted union
C12_Consecutive(t, u) ==
    /\ t \in C12_EventTimes
    /\ u \in C12_EventTimes
    /\ t < u
    /\ ~\E v \in C12_EventTimes : t < v /\ v < u

\* the periods an event at time t belongs to
C12_PeriodsOf(t) == {i \in 1..Len(Periods) : Periods[i].start <= t /\ t <= Periods[i].end}

\* C12: the periods returned by analyze_activity_periods segment the sorted
\* union of comments and commits: two consecutive events are in the same
\* period iff their gap is at most 24 hours; every event is in exactly one
\* period; every period starts and ends at an event with start <= end;
\* periods are in chronological order, each ending more than 24 hours
\* before the next starts; no events give no periods, without an error.
C12_PeriodsSegmentEvents ==
    periods # None =>
        /\ PeriodsReturned
        /\ \A t \in C12_EventTimes : Cardinality(C12_PeriodsOf(t)) = 1
        /\ \A t, u \in C12_EventTimes :
              C12_Consecutive(t, u) =>
                 (C12_PeriodsOf(t) = C12_PeriodsOf(u) <=> u - t <= 24)
        /\ \A i \in 1..Len(Periods) :
              /\ Periods[i].start \in C12_EventTimes
              /\ Periods[i].end \in C12_EventTimes
              /\ Periods[i].start <= Periods[i].end
        /\ \A i \in 1..(Len(Periods) - 1) :
              Periods[i + 1].start - Periods[i].end > 24
        /\ C12_EventTimes = {} <=> Periods = <<>>

\* C12 witness: two events exactly 24 hours apart share the first period and
\* an event 25 hours later is alone in the second
C12_Witness ==
    /\ PeriodsReturned
    /\ C12_EventTimes = {30, 54, 79}
    /\ Len(Periods) = 2
    /\ Periods[1].start = 30 /\ Periods[1].end = 54
    /\ Periods[2].start = 79 /\ Periods[2].end = 79

\* the calendar day of an ISO-8601 timestamp string
C18_Day(s) == s.d

\* the days with a review_comment or review comment
C18_ReviewDays ==
    {C18_Day(snap.comments[i].created_at) :
        i \in {j \in 1..Len(snap.comments) :
                  snap.comments[j].type \in {TypeReviewComment, TypeReview}}}

\* the days with a commit
C18_CommitDays == {C18_Day(snap.commits[i].date) : i \in 1..Len(snap.commits)}

\* the days d with a review event whose next day of recorded activity has a
\* commit
C18_CycleDays ==
    LET days == C18_ReviewDays \cup C18_CommitDays
    IN  {d \in C18_ReviewDays :
            /\ \E e \in days : e > d
            /\ Min({e \in days : e > d}) \in C18_CommitDays}

\* C18: review_cycles = max(1, k), k being the number of days with a
\* review-type comment whose next day with a review-type comment or a commit
\* (not necessarily the next calendar day) has a commit; issue comments and
\* review records make no day and no review event; a review and a later
\* commit on the same day make no cycle.
C18_ReviewCyclesByDateList ==
    TimelineReturned =>
        Metrics.review_cycles =
            IF Cardinality(C18_CycleDays) > 1 THEN Cardinality(C18_CycleDays) ELSE 1

\* C18 witness: reviews on days 1 and 2, commits on days 2 and 4 and an
\* issue comment: two cycles, the second across the empty day 3
C18_Witness ==
    /\ TimelineReturned
    /\ C18_ReviewDays = {1, 2}
    /\ C18_CommitDays = {2, 4}
    /\ \E i \in 1..Len(snap.comments) : snap.comments[i].type = TypeIssue
    /\ Metrics.review_cycles = 2

\* the times of the comments of type review_comment or review
C19_ReviewCommentTimes ==
    {C11_Hours(snap.comments[i].created_at) :
        i \in {j \in 1..Len(snap.comments) :
                  snap.comments[j].type \in {TypeReviewComment, TypeReview}}}

\* the submitted times of the review records that have one
C19_ReviewRecordTimes ==
    {C11_Hours(snap.reviews[i].submitted_at[1]) :
        i \in {j \in 1..Len(snap.reviews) : snap.reviews[j].submitted_at # None}}

\* C19: first_review_at is the minimum over the times of the review_comment
\* and review comments and the submitted times of the review records, and
\* null iff there is neither; issue comments do not count, and a review
\* record counts without a comment of its time.
C19_FirstReviewIsEarliest ==
    TimelineReturned =>
        LET times == C19_ReviewCommentTimes \cup C19_ReviewRecordTimes
        IN  /\ Metrics.first_review_at = None <=> times = {}
            /\ times # {} => Metrics.first_review_at = Some(Min(times))

\* C19 witness: an issue comment at 01T03:00, a review record submitted at
\* 01T12:00, a review_comment at 02T00:00: first_review_at is the time of the
\* record
C19_Witness ==
    /\ TimelineReturned
    /\ \E i \in 1..Len(snap.comments) :
          snap.comments[i].type = TypeIssue /\ snap.comments[i].created_at = Iso(1, 3)
    /\ C19_ReviewCommentTimes = {48}
    /\ C19_ReviewRecordTimes = {36}
    /\ Metrics.first_review_at = Some(36)

-----------------------------------------------------------------------------
(* SpecFrame: the three analyses called on one snapshot, in any order      *)

MaxFrameEvents == 3

FrameCommentPool ==
    {Comment("bob", <<"C", "o", "u", "l", "d", " ", "y", "o", "u", " ", "f", "i", "x", " ", "BACKTICK", "a", ".", "p", "y", "BACKTICK", "?">>, Iso(2, 0), TypeReview),
     Comment("dev", <<"d", "o", "n", "e">>, Iso(1, 3), TypeIssue)}

FrameReviewPool == {Some(Iso(1, 12))}

FrameCommitPool == {Iso(2, 6), Iso(1, 1)}

InitFrame ==
    /\ snap = EmptySnapshot(Iso(1, 0), Iso(3, 0), None, None)
    /\ conv = None
    /\ tl = None
    /\ periods = None
    /\ llm = NoResponse
    /\ run = NotCalled

FetchFrameComment == FetchComment(FrameCommentPool, MaxFrameEvents)

FetchFrameReview == FetchReview(FrameReviewPool, MaxFrameEvents)

FetchFrameCommit == FetchCommit(FrameCommitPool, MaxFrameEvents)

NextFrame ==
    \/ FetchFrameComment
    \/ FetchFrameReview
    \/ FetchFrameCommit
    \/ AnalyzeTimeline
    \/ AnalyzeActivityPeriods
    \/ AnalyzeConversations

SpecFrame == InitFrame /\ [][NextFrame]_vars

\* C13: a step in which analyze_timeline, analyze_activity_periods or
\* analyze_conversations delivers its result leaves the snapshot as it was:
\* the comment list (contents and order), the reviews, the commits and the
\* scalar fields.
C13_AnalyzersLeaveSnapshot ==
    [][(tl' # tl \/ periods' # periods \/ conv' # conv) => snap' = snap]_vars

\* C13 witness: all three analyses ran on a snapshot whose comments and
\* commits are not in chronological order, and they still are not
C13_Witness ==
    /\ tl # None /\ periods # None /\ conv # None
    /\ Len(snap.comments) = 2
    /\ snap.comments[1].created_at = Iso(2, 0)
    /\ snap.comments[2].created_at = Iso(1, 3)
    /\ Len(conv[1].threads) = 2
    /\ Len(periods[1].value[1]) = 1

-----------------------------------------------------------------------------
(* SpecPatterns: the communication patterns of conversations between the   *)
(* PR author and one reviewer                                              *)

MaxPatternComments == 10

PatternPool ==
    {Comment(PRAuthor, <<"o", "k">>, Iso(1, 1), TypeIssue),
     Comment("bob", <<"n", "o">>, Iso(1, 2), TypeReviewComment)}

FetchPatternComment == FetchComment(PatternPool, MaxPatternComments)

NextPatterns == FetchPatternComment \/ AnalyzeConversations

SpecPatterns == Init /\ [][NextPatterns]_vars

\* the number of input comments written by the PR author
C14_AuthorComments ==
    Cardinality({i \in 1..Len(snap.comments) : snap.comments[i].author = snap.author})

\* the number of input comments written by anyone else
C14_OtherComments ==
    Cardinality({i \in 1..Len(snap.comments) : snap.comments[i].author # snap.author})

\* C14: author_responsiveness is the quotient (comments by the PR author) /
\* (comments by anyone else) when there is a comment by someone else, and
\* 0.0 when there is none: the analysis returns, with no division by zero.
C14_AuthorResponsiveness ==
    conv # None =>
        LET r == conv[1].patterns.author_responsiveness
        IN  /\ r.den # 0
            /\ IF C14_OtherComments > 0
               THEN r.num * C14_OtherComments = C14_AuthorComments * r.den
               ELSE r.num = 0

\* C14 witness: ten comments of the PR author and none of anyone else give
\* 0.0
C14_Witness ==
    /\ conv # None
    /\ C14_AuthorComments = 10
    /\ C14_OtherComments = 0
    /\ conv[1].patterns.author_responsiveness.num = 0

-----------------------------------------------------------------------------
(* SpecReviewers: conversations of a PR with up to eight participants      *)

MaxReviewerComments == 7

ReviewerComment(author) == Comment(author, <<"o", "k">>, Iso(1, 1), TypeIssue)

ReviewerPool == {ReviewerComment(a) : a \in {"eve", "fay", PRAuthor, "bob"}}

\* a snapshot on which four reviewers have commented already
InitReviewers ==
    /\ \E first \in {<<"al", "bob", "carol", "dan">>, <<"dan", "bob", "al", "bob">>} :
          snap = [EmptySnapshot(Iso(1, 0), Iso(3, 0), None, None) EXCEPT
                     !.comments = [i \in 1..4 |->
                                      [ReviewerComment(first[i]) EXCEPT !.id = i]]]
    /\ conv = None
    /\ tl = None
    /\ periods = None
    /\ llm = NoResponse
    /\ run = NotCalled

FetchReviewerComment == FetchComment(ReviewerPool, MaxReviewerComments)

NextReviewers == FetchReviewerComment \/ AnalyzeConversations

SpecReviewers == InitReviewers /\ [][NextReviewers]_vars

C15_Authors == {snap.comments[i].author : i \in 1..Len(snap.comments)}

C15_CountOf(a) == Cardinality({i \in 1..Len(snap.comments) : snap.comments[i].author = a})

C15_FirstCommentOf(a) == Min({i \in 1..Len(snap.comments) : snap.comments[i].author = a})

C15_Listed == conv[1].metrics.most_active_reviewers

\* C15: most_active_reviewers holds min(5, number of comment authors)
\* (author, count) pairs of distinct comment authors, the PR author being
\* ranked like anyone else; each count is that author's number of comments;
\* counts do not increase along the list; of two listed authors with equal
\* counts the one who commented first comes first; no author left out has a
\* strictly larger count than a listed one.
C15_MostActiveReviewers ==
    conv # None =>
        LET L == C15_Listed
            listed == {L[i][1] : i \in 1..Len(L)}
        IN  /\ Len(L) <= 5
            /\ Len(L) = IF Cardinality(C15_Authors) > 5 THEN 5
                        ELSE Cardinality(C15_Authors)
            /\ Cardinality(listed) = Len(L)
            /\ \A i \in 1..Len(L) :
                  L[i][1] \in C15_Authors /\ L[i][2] = C15_CountOf(L[i][1])
            /\ \A i, j \in 1..Len(L) :
                  i < j =>
                     /\ L[i][2] >= L[j][2]
                     /\ L[i][2] = L[j][2] =>
                           C15_FirstCommentOf(L[i][1]) < C15_FirstCommentOf(L[j][1])
            /\ \A a \in C15_Authors \ listed :
                  \A b \in listed : C15_CountOf(a) <= C15_CountOf(b)

\* C15 witness: six authors; the last to arrive has two comments and heads
\* the list, the four who commented first follow in that order, and the PR
\* author, fifth of the one-comment authors, is left out
C15_Witness ==
    /\ conv # None
    /\ [i \in 1..Len(snap.comments) |-> snap.comments[i].author] =
          <<"al", "bob", "carol", "dan", PRAuthor, "fay", "fay">>
    /\ C15_Listed = <<<<"fay", 2>>, <<"al", 1>>, <<"bob", 1>>, <<"carol", 1>>,
                      <<"dan", 1>>>>

-----------------------------------------------------------------------------
(* SpecListItems: the parser on answers that open a list section and go on *)
(* with lines of that section                                              *)

MaxListLines == 4

ListLinePool ==
    {<<"-", " ", "a", "d", "d", " ", "x">>, <<"*", " ", " ", "s", "t", "a", "r", " ">>, <<"U+2022", " ", "d", "o", "t">>, <<"U+00E2", "U+20AC", "U+00A2", " ", "m", "o", "j", "i">>, <<"p", "l", "a", "i", "n", " ", "t", "e", "x", "t">>, <<"#", " ", "n", "o", "t", "e">>, <<>>}

InitListItems ==
    /\ snap = EmptySnapshot(Iso(1, 0), Iso(3, 0), None, None)
    /\ conv = None
    /\ tl = None
    /\ periods = None
    /\ \E header \in {<<"#", "#", "#", " ", "K", "E", "Y", " ", "C", "H", "A", "N", "G", "E", "S">>, <<"#", "#", "#", " ", "S", "u", "g", "g", "e", "s", "t", "i", "o", "n", "s", ":">>} :
          llm = [analysis_text |-> header, result |-> None]
    /\ run = NotCalled

RespondListLine == RespondLine(ListLinePool, MaxListLines)

NextListItems == RespondListLine \/ ParseResponse

SpecListItems == InitListItems /\ [][NextListItems]_vars

\* the list section the answer opens
C16_Section == IF StartsWith(llm.analysis_text, <<"#", "#", "#", " ", "K", "E", "Y">>) THEN "key_changes" ELSE "suggestions"

\* the lines after the header: stripped, blank ones left out
C16_Lines ==
    LET all == SplitLines(llm.analysis_text)
    IN  SelectSeq([i \in 1..(Len(all) - 1) |-> Strip(all[i + 1])],
                  LAMBDA l : l # <<>>)

\* the concatenation of a sequence of item lists
RECURSIVE C16_Flatten(_)
C16_Flatten(lists) ==
    IF lists = <<>> THEN <<>> ELSE Head(lists) \o C16_Flatten(Tail(lists))

\* a line begins with a bullet marker: '-', '*' or the bullet U+2022
C16_IsBulletLine(line) == line # <<>> /\ line[1] \in {"-", "*", Bullet}

\* one item per bullet line, the marker removed; no item for any other line
C16_ClaimedItemsOf(line) ==
    IF C16_IsBulletLine(line) THEN <<Strip(Tail(line))>> ELSE <<>>

\* C16: the items of a list section are the lines that begin with a bullet
\* marker, one item per line with the marker removed; a line that does not
\* begin with a bullet marker adds no item.
C16_ItemsFromBulletLinesOnly ==
    llm.result # None =>
        llm.result[1][C16_Section] =
            C16_Flatten([i \in 1..Len(C16_Lines) |-> C16_ClaimedItemsOf(C16_Lines[i])])

-----------------------------------------------------------------------------
(* SpecParser: the parser on answers made of section headers and lines     *)

MaxResponseLines == 4

ResponseLinePool ==
    {<<"#", "#", "#", " ", "S", "u", "m", "m", "a", "r", "y">>, <<"#", "#", " ", "u", "s", "e", " ", "#", "#", "#", " ", "k", "e", "y", " ", "c", "h", "a", "n", "g", "e", "s", ":">>, <<"#", "#", "#", " ", "S", "U", "G", "G", "E", "S", "T", "I", "O", "N", "S">>,
     <<"#", "#", "#", " ", "o", "v", "e", "r", "a", "l", "l", " ", "a", "s", "s", "e", "s", "s", "m", "e", "n", "t">>, <<" ", "-", " ", "a", "d", "d", " ", "x", " ">>, <<"p", "l", "a", "i", "n">>, <<"#", " ", "n", "o", "t", "e">>, <<>>}

InitParser ==
    /\ snap = EmptySnapshot(Iso(1, 0), Iso(3, 0), None, None)
    /\ conv = None
    /\ tl = None
    /\ periods = None
    /\ llm = NoResponse
    /\ run = NotCalled

RespondResponseLine == RespondLine(ResponseLinePool, MaxResponseLines)

NextParser == RespondResponseLine \/ ParseResponse

SpecParser == InitParser /\ [][NextParser]_vars

\* the seven section markers in lower case, each with its section
C17_Markers ==
    {<<<<"#", "#", "#", " ", "s", "u", "m", "m", "a", "r", "y">>, "summary">>, <<<<"#", "#", "#", " ", "k", "e", "y", " ", "c", "h", "a", "n", "g", "e", "s">>, "key_changes">>,
     <<<<"#", "#", "#", " ", "c", "o", "m", "m", "e", "n", "t", " ", "a", "n", "a", "l", "y", "s", "i", "s">>, "comment_analysis">>,
     <<<<"#", "#", "#", " ", "d", "e", "v", "e", "l", "o", "p", "e", "r", " ", "m", "i", "s", "t", "a", "k", "e", "s">>, "developer_mistakes">>,
     <<<<"#", "#", "#", " ", "c", "o", "d", "e", " ", "q", "u", "a", "l", "i", "t", "y", " ", "i", "s", "s", "u", "e", "s">>, "code_quality_issues">>,
     <<<<"#", "#", "#", " ", "s", "u", "g", "g", "e", "s", "t", "i", "o", "n", "s">>, "suggestions">>,
     <<<<"#", "#", "#", " ", "o", "v", "e", "r", "a", "l", "l", " ", "a", "s", "s", "e", "s", "s", "m", "e", "n", "t">>, "overall_assessment">>}

C17_TextSections == {"summary", "comment_analysis", "overall_assessment"}

\* the lines of a text, stripped
RECURSIVE C17_StripAll(_)
C17_StripAll(lines) ==
    IF lines = <<>> THEN <<>>
    ELSE <<Strip(Head(lines))>> \o C17_StripAll(Tail(lines))

C17_Lines(text) == C17_StripAll(SplitLines(text))

\* the sections whose marker a line contains, whatever the letter case
C17_MarkersIn(line) ==
    LET low == Lower(line)
    IN  {m[2] : m \in {n \in C17_Markers : Contains(low, n[1])}}

\* for every line, the sections whose marker it contains
RECURSIVE C17_Marks(_)
C17_Marks(lines) ==
    IF lines = <<>> THEN <<>>
    ELSE <<C17_MarkersIn(Head(lines))>> \o C17_Marks(Tail(lines))

\* for every line, the sections of the most recent marker line before it;
\* recent is that of the first line (none when no marker line precedes)
RECURSIVE C17_Latest(_, _)
C17_Latest(marks, recent) ==
    IF marks = <<>> THEN <<>>
    ELSE <<recent>> \o C17_Latest(Tail(marks),
                                  IF Head(marks) # {} THEN Head(marks) ELSE recent)

\* the non-blank non-marker lines among lines whose most recent preceding
\* marker line is a marker of section s, in input order
RECURSIVE C17_LinesOf(_, _, _, _)
C17_LinesOf(s, lines, marks, latest) ==
    IF lines = <<>> THEN <<>>
    ELSE (IF Head(lines) # <<>> /\ Head(marks) = {} /\ s \in Head(latest)
          THEN <<Head(lines)>> ELSE <<>>)
         \o C17_LinesOf(s, Tail(lines), Tail(marks), Tail(latest))

\* the lines joined by line feeds
RECURSIVE C17_Join(_)
C17_Join(lines) ==
    IF lines = <<>> THEN <<>>
    ELSE IF Len(lines) = 1 THEN lines[1]
    ELSE lines[1] \o <<LineFeed>> \o C17_Join(Tail(lines))

\* the items of the lines of a list section
RECURSIVE C17_Items(_)
C17_Items(lines) ==
    IF lines = <<>> THEN <<>>
    ELSE ListItemsOf(Head(lines)) \o C17_Items(Tail(lines))

\* C17: the content of every section comes from the non-blank non-marker
\* lines whose most recent preceding marker line (letter case ignored) is a
\* marker of that section, and from no other line: a text-type section is
\* these lines joined by newlines in input order, a list-type section holds
\* the items of these lines in input order; so lines before the first marker
\* and the marker lines themselves are in no section.
C17_LinesGoToLatestSection ==
    llm.result # None =>
        LET lines == C17_Lines(llm.analysis_text)
            marks == C17_Marks(lines)
            latest == C17_Latest(marks, {})
        IN  /\ \A s \in C17_TextSections :
                  llm.result[1][s] = C17_Join(C17_LinesOf(s, lines, marks, latest))
            /\ \A s \in ListSections :
                  llm.result[1][s] = C17_Items(C17_LinesOf(s, lines, marks, latest))

\* C17 witness: a line after the summary header goes to the summary, a line
\* after the following key-changes header in lower case goes to key_changes,
\* and the headers are in neither
C17_Witness ==
    /\ llm.result # None
    /\ C17_Lines(llm.analysis_text) =
          <<<<"#", "#", "#", " ", "S", "u", "m", "m", "a", "r", "y">>, <<"p", "l", "a", "i", "n">>, <<"#", "#", " ", "u", "s", "e", " ", "#", "#", "#", " ", "k", "e", "y", " ", "c", "h", "a", "n", "g", "e", "s", ":">>, <<"-", " ", "a", "d", "d", " ", "x">>>>
    /\ llm.result[1].summary = <<"p", "l", "a", "i", "n">>
    /\ llm.result[1].key_changes = <<<<"a", "d", "d", " ", "x">>>>
    /\ llm.result[1].suggestions = <<>>

-----------------------------------------------------------------------------
(* SpecThreadType: threads whose comments hold keywords of several classes *)

MaxThreadTypeComments == 3

ThreadTypePool ==
    {Comment("bob", <<"BACKTICK", "a", ".", "p", "y", "BACKTICK", " ", "L", "G", "T", "M">>, Iso(1, 1), TypeReview),
     Comment("carol", <<"BACKTICK", "a", ".", "p", "y", "BACKTICK", " ", "c", "o", "u", "l", "d">>, Iso(1, 2), TypeReviewComment),
     Comment("bob", <<"BACKTICK", "a", ".", "p", "y", "BACKTICK", " ", "W", "h", "y">>, Iso(1, 3), TypeReviewComment),
     Comment("dev", <<"BACKTICK", "a", ".", "p", "y", "BACKTICK", " ", "b", "u", "g">>, Iso(1, 4), TypeIssue),
     Comment("dev", <<"BACKTICK", "a", ".", "p", "y", "BACKTICK", " ", "o", "k">>, Iso(1, 5), TypeIssue),
     Comment("carol", <<"BACKTICK", "a", ".", "p", "y", "BACKTICK", " ", "l", "o", "o", "k", "s">>, Iso(1, 7), TypeIssue),
     Comment("carol", <<"g", "o", "o", "d", " ", "BACKTICK", "a", ".", "p", "y", "BACKTICK">>, Iso(1, 6), TypeIssue),
     Comment("bob", <<"w", "h", "a", "t", " ", "e", "r", "r", "o", "r">>, Iso(1, 8), TypeIssue)}

FetchThreadTypeComment == FetchComment(ThreadTypePool, MaxThreadTypeComments)

NextThreadType == FetchThreadTypeComment \/ AnalyzeConversations

SpecThreadType == Init /\ [][NextThreadType]_vars

\* the lowered bodies of the input comments that went into thread t, in
\* input order, joined by blanks
RECURSIVE C20_Concat(_, _)
C20_Concat(comments, ids) ==
    IF comments = <<>> THEN <<>>
    ELSE LET rest == C20_Concat(Tail(comments), ids)
         IN  IF Head(comments).id \notin ids THEN rest
             ELSE IF rest = <<>> THEN Lower(Head(comments).body)
             ELSE Lower(Head(comments).body) \o <<" ">> \o rest

C20_Text(t) ==
    C20_Concat(snap.comments,
               {Threads[t].comments[i].id : i \in 1..Len(Threads[t].comments)})

\* the classes in the order of their precedence, with their keywords
C20_Classes ==
    <<[type |-> "approval", keywords |-> {<<"a", "p", "p", "r", "o", "v", "e">>, <<"l", "g", "t", "m">>, <<"l", "o", "o", "k", "s", " ", "g", "o", "o", "d">>}],
      [type |-> "suggestion", keywords |-> {<<"s", "u", "g", "g", "e", "s", "t">>, <<"r", "e", "c", "o", "m", "m", "e", "n", "d">>, <<"c", "o", "u", "l", "d">>, <<"m", "i", "g", "h", "t">>}],
      [type |-> "question", keywords |-> {<<"?">>, <<"q", "u", "e", "s", "t", "i", "o", "n">>, <<"w", "h", "y">>, <<"h", "o", "w">>, <<"w", "h", "a", "t">>}],
      [type |-> "issue_discussion", keywords |-> {<<"i", "s", "s", "u", "e">>, <<"p", "r", "o", "b", "l", "e", "m">>, <<"e", "r", "r", "o", "r">>, <<"b", "u", "g">>}]>>

\* the classes that have a keyword in the text
C20_Matching(text) ==
    {c \in 1..Len(C20_Classes) : \E k \in C20_Classes[c].keywords : Contains(text, k)}

-----------------------------------------------------------------------------
(* SpecProfiles: reviewers whose comments hold keywords of several kinds   *)

MaxProfileComments == 3

ProfilePool ==
    {Comment("bob", <<"W", "h", "y", " ", "c", "o", "u", "l", "d", " ", "i", "t">>, Iso(1, 1), TypeReviewComment),
     Comment("carol", <<"c", "o", "u", "l", "d", " ", "b", "e", ".", " ", "L", "G", "T", "M">>, Iso(1, 2), TypeReview),
     Comment("bob", <<"L", "G", "T", "M">>, Iso(1, 3), TypeReview),
     Comment("carol", <<"o", "k">>, Iso(1, 4), TypeIssue),
     Comment(PRAuthor, <<"h", "o", "w", "?">>, Iso(1, 5), TypeIssue),
     Comment("bob", <<"l", "o", "o", "k", "s", " ", "g", "o", "o", "d", "?">>, Iso(1, 6), TypeIssue)}

FetchProfileComment == FetchComment(ProfilePool, MaxProfileComments)

NextProfiles == FetchProfileComment \/ AnalyzeConversations

SpecProfiles == Init /\ [][NextProfiles]_vars

Profiles == conv[1].reviewer_profiles

\* the counter a comment body increments: the first of questions,
\* suggestions, approvals whose keyword the lowered body holds, else general
C21_Counter(body) ==
    LET low == Lower(body)
        has(words) == \E w \in words : Contains(low, w)
    IN  IF has({<<"?">>, <<"q", "u", "e", "s", "t", "i", "o", "n">>, <<"w", "h", "y">>, <<"h", "o", "w">>}) THEN "questions"
        ELSE IF has({<<"s", "u", "g", "g", "e", "s", "t">>, <<"r", "e", "c", "o", "m", "m", "e", "n", "d">>, <<"c", "o", "u", "l", "d">>}) THEN "suggestions"
        ELSE IF has({<<"a", "p", "p", "r", "o", "v", "e">>, <<"l", "g", "t", "m">>, <<"l", "o", "o", "k", "s", " ", "g", "o", "o", "d">>}) THEN "approvals"
        ELSE "general"

\* the positions of the input comments of an author
C21_CommentsOf(a) == {i \in 1..Len(snap.comments) : snap.comments[i].author = a}

RECURSIVE C21_SumTotals(_)
C21_SumTotals(profiles) ==
    IF profiles = <<>> THEN 0
    ELSE Head(profiles).total_comments + C21_SumTotals(Tail(profiles))

\* C21: reviewer_profiles has exactly one profile for every comment author
\* other than the PR author and none for the PR author; every counter of a
\* profile is the number of the reviewer's comments that increment it, by
\* the precedence question > suggestion > approval > general; the four
\* counters sum to total_comments; the total_comments of all profiles plus
\* the PR author's comments are all input comments.
C21_ProfilesCountEveryComment ==
    conv # None =>
        /\ \A i, j \in 1..Len(Profiles) : Profiles[i].name = Profiles[j].name => i = j
        /\ {Profiles[i].name : i \in 1..Len(Profiles)} =
              {snap.comments[i].author : i \in 1..Len(snap.comments)} \ {snap.author}
        /\ \A i \in 1..Len(Profiles) :
              LET p == Profiles[i]
              IN  /\ \A t \in {"questions", "suggestions", "approvals", "general"} :
                        p.comment_types[t] =
                           Cardinality({k \in C21_CommentsOf(p.name) :
                                           C21_Counter(snap.comments[k].body) = t})
                  /\ p.comment_types["questions"] + p.comment_types["suggestions"]
                     + p.comment_types["approvals"] + p.comment_types["general"]
                     = p.total_comments
        /\ C21_SumTotals(Profiles) + Cardinality(C21_CommentsOf(snap.author))
              = Len(snap.comments)

\* C21 witness: a reviewer with a question-and-suggestion comment and an
\* approval-and-question comment has two questions; the PR author commented
\* and has no profile
C21_Witness ==
    /\ conv # None
    /\ Len(snap.comments) = 3
    /\ Cardinality(C21_CommentsOf(snap.author)) = 1
    /\ Len(Profiles) = 1
    /\ Profiles[1].name = "bob"
    /\ Profiles[1].total_comments = 2
    /\ Profiles[1].comment_types["questions"] = 2
    /\ \E k \in C21_CommentsOf("bob") : Contains(Lower(snap.comments[k].body), <<"c", "o", "u", "l", "d">>)

-----------------------------------------------------------------------------
(* SpecEngagement: reviewers with one to eight comments                    *)

MaxEngagementComments == 8

EngagementComment(a) == Comment(a, <<"o", "k">>, Iso(1, 1), TypeIssue)

EngagementPool == {EngagementComment(a) : a \in {"bob", "carol", "dan", PRAuthor}}

InitEngagement ==
    /\ snap = [EmptySnapshot(Iso(1, 0), Iso(3, 0), None, None) EXCEPT
                  !.comments = [i \in 1..5 |->
                                   [EngagementComment(<<"bob", "carol", "bob", "dan", "bob">>[i])
                                       EXCEPT !.id = i]]]
    /\ conv = None
    /\ tl = None
    /\ periods = None
    /\ llm = NoResponse
    /\ run = NotCalled

FetchEngagementComment == FetchComment(EngagementPool, MaxEngagementComments)

NextEngagement == FetchEngagementComment \/ AnalyzeConversations

SpecEngagement == InitEngagement /\ [][NextEngagement]_vars

\* C22: the engagement_level of a profile is 'high' exactly when its
\* total_comments, the number of the reviewer's comments, is at least 5,
\* 'medium' exactly when it is 2, 3 or 4, and 'low' exactly when it is 1;
\* no profile has 0 comments.
C22_EngagementByTotal ==
    conv # None =>
        \A i \in 1..Len(Profiles) :
            LET p == Profiles[i]
                n == Cardinality({k \in 1..Len(snap.comments) :
                                     snap.comments[k].author = p.name})
            IN  /\ p.total_comments = n
                /\ n >= 1
                /\ p.engagement_level = "high" <=> n >= 5
                /\ p.engagement_level = "medium" <=> n \in 2..4
                /\ p.engagement_level = "low" <=> n = 1

\* C22 witness: profiles with exactly 5, exactly 2 and exactly 1 comments
\* are high, medium and low
C22_Witness ==
    /\ conv # None
    /\ \E i, j, k \in 1..Len(Profiles) :
          /\ Profiles[i].total_comments = 5 /\ Profiles[i].engagement_level = "high"
          /\ Profiles[j].total_comments = 2 /\ Profiles[j].engagement_level = "medium"
          /\ Profiles[k].total_comments = 1 /\ Profiles[k].engagement_level = "low"

-----------------------------------------------------------------------------
(* SpecMetrics: threads that end resolved, ongoing and unresolved          *)

MaxMetricsComments == 3

MetricsPool ==
    {Comment("bob", <<"BACKTICK", "a", ".", "p", "y", "BACKTICK", " ", "f", "i", "x", "e", "d">>, Iso(1, 1), TypeReviewComment),
     Comment(PRAuthor, <<"BACKTICK", "a", ".", "p", "y", "BACKTICK", " ", "w", "i", "l", "l", " ", "d", "o", " ", "l", "a", "t", "e", "r">>, Iso(1, 2), TypeIssue),
     Comment("carol", <<"@", "b", "o", "b", " ", "t", "o", "d", "o">>, Iso(1, 3), TypeIssue),
     Comment("bob", <<"o", "k">>, Iso(1, 4), TypeIssue),
     Comment("carol", <<"t", "h", "a", "n", "k", "s">>, Iso(1, 5), TypeIssue)}

FetchMetricsComment == FetchComment(MetricsPool, MaxMetricsComments)

NextMetrics == FetchMetricsComment \/ AnalyzeConversations

SpecMetrics == Init /\ [][NextMetrics]_vars

ConversationMetrics == conv[1].metrics

C23_ThreadsWith(status) ==
    {t \in 1..Len(Threads) : Threads[t].resolution_status = status}

RECURSIVE C23_CommentCount(_)
C23_CommentCount(t) ==
    IF t = 0 THEN 0 ELSE Len(Threads[t].comments) + C23_CommentCount(t - 1)

\* C23: resolved_threads and unresolved_threads are the numbers of threads
\* whose status is 'resolved' and 'unresolved'; an 'ongoing' thread counts
\* for neither, so resolved + unresolved <= total_threads, with equality
\* exactly when no thread is ongoing; avg_responses_per_thread is the sum of
\* the threads' comment counts over max(1, total_threads), and times
\* total_threads it is the number of input comments.
C23_MetricsCountThreads ==
    conv # None =>
        LET m == ConversationMetrics
            avg == m.avg_responses_per_thread
        IN  /\ m.total_threads = Len(Threads)
            /\ m.resolved_threads = Cardinality(C23_ThreadsWith("resolved"))
            /\ m.unresolved_threads = Cardinality(C23_ThreadsWith("unresolved"))
            /\ m.resolved_threads + m.unresolved_threads <= m.total_threads
            /\ m.resolved_threads + m.unresolved_threads = m.total_threads
                  <=> C23_ThreadsWith("ongoing") = {}
            /\ avg.num = C23_CommentCount(Len(Threads))
            /\ avg.den = (IF m.total_threads > 1 THEN m.total_threads ELSE 1)
            /\ avg.num * m.total_threads = Len(snap.comments) * avg.den

\* C23 witness: three threads, one resolved, one ongoing and one unresolved
C23_Witness ==
    /\ conv # None
    /\ ConversationMetrics.total_threads = 3
    /\ ConversationMetrics.resolved_threads = 1
    /\ ConversationMetrics.unresolved_threads = 1
    /\ C23_ThreadsWith("ongoing") # {}

-----------------------------------------------------------------------------
(* SpecFrequency: lifecycles of less than a day, of several days and with  *)
(* an update before the creation                                           *)

MaxFrequencyComments == 3

FrequencyPool ==
    {Comment("bob", <<"o", "k">>, Iso(3, 13), TypeIssue),
     Comment("carol", <<"o", "k">>, Iso(4, 1), TypeReviewComment)}

InitFrequency ==
    /\ \E created_at \in {Iso(3, 12), Iso(4, 0)},
          updated_at \in {Iso(1, 6), Iso(3, 23), Iso(5, 11), Iso(5, 12), Iso(7, 0)} :
          snap = EmptySnapshot(created_at, updated_at, None, None)
    /\ conv = None
    /\ tl = None
    /\ periods = None
    /\ llm = NoResponse
    /\ run = NotCalled

FetchFrequencyComment == FetchComment(FrequencyPool, MaxFrequencyComments)

NextFrequency == FetchFrequencyComment \/ AnalyzeTimeline

SpecFrequency == InitFrequency /\ [][NextFrequency]_vars

\* hours from created_at to last_activity_at (updated_at) of the snapshot
C24_LifecycleHours ==
    (snap.updated_at.d * 24 + snap.updated_at.h) - (snap.created_at.d * 24 + snap.created_at.h)

\* the whole days in a lifecycle of at least one day
C24_WholeDays ==
    CHOOSE k \in 1..C24_LifecycleHours :
        24 * k <= C24_LifecycleHours /\ C24_LifecycleHours < 24 * (k + 1)

\* C24: comment_frequency is the number of comments over max(1, whole days
\* from created_at to last_activity_at); it is never negative and never a
\* division by zero; it is the raw comment count when the lifecycle is
\* shorter than two whole days, also when last_activity_at precedes
\* created_at.
C24_CommentFrequency ==
    TimelineReturned =>
        LET f == Metrics.comment_frequency
        IN  /\ f.num = Len(snap.comments)
            /\ f.den = (IF C24_LifecycleHours >= 24 THEN C24_WholeDays ELSE 1)
            /\ f.num >= 0 /\ f.den >= 1
            /\ C24_LifecycleHours < 48 => f.den = 1
            /\ C24_LifecycleHours < 0 => f.den = 1

\* C24 witness: three comments on a PR updated before it was created have
\* the frequency 3
C24_Witness ==
    /\ TimelineReturned
    /\ C24_LifecycleHours < 0
    /\ Len(snap.comments) = 3
    /\ Metrics.comment_frequency = Ratio(3, 1)

\* three comments over a lifecycle of three whole days and some hours
C24_WitnessDays ==
    /\ TimelineReturned
    /\ C24_LifecycleHours = 84
    /\ Metrics.comment_frequency = Ratio(3, 3)

-----------------------------------------------------------------------------
(* The type of an activity period                                          *)

\* the comments and the commits of the snapshot inside period i
C25_CommentsIn(i) ==
    {j \in 1..Len(snap.comments) :
        /\ Periods[i].start <= C11_Hours(snap.comments[j].created_at)
        /\ C11_Hours(snap.comments[j].created_at) <= Periods[i].end}

C25_CommitsIn(i) ==
    {j \in 1..Len(snap.commits) :
        /\ Periods[i].start <= C11_Hours(snap.commits[j].date)
        /\ C11_Hours(snap.commits[j].date) <= Periods[i].end}

\* C25: every activity period is classified from its own events only:
\* 'revision' if it has more commits than comments; else 'review' if it has
\* a comment; else 'discussion'. As many commits as comments is 'review'.
C25_PeriodTypeFromOwnEvents ==
    PeriodsReturned =>
        \A i \in 1..Len(Periods) :
            LET commit_count == Cardinality(C25_CommitsIn(i))
                comment_count == Cardinality(C25_CommentsIn(i))
            IN  /\ Periods[i].activity_type =
                      (IF commit_count > comment_count THEN "revision"
                       ELSE IF comment_count > 0 THEN "review"
                       ELSE "discussion")
                /\ (commit_count = comment_count /\ comment_count > 0)
                      => Periods[i].activity_type = "review"

\* C25 witness: a first period of one comment and one commit is a review
\* although the whole snapshot has more commits than comments; the second
\* period, of commits only, is a revision
C25_Witness ==
    /\ PeriodsReturned
    /\ Len(Periods) = 2
    /\ Len(snap.commits) > Len(snap.comments)
    /\ Cardinality(C25_CommentsIn(1)) = 1
    /\ Cardinality(C25_CommitsIn(1)) = 1
    /\ Periods[1].activity_type = "review"
    /\ Periods[2].activity_type = "revision"

\* C26: no period returned by analyze_activity_periods is a 'discussion':
\* every period is a 'revision' or a 'review'.
C26_NoDiscussionPeriod ==
    PeriodsReturned =>
        \A i \in 1..Len(Periods) : Periods[i].activity_type \in {"revision", "review"}

\* C26 witness: a returned period with comments and no commit, which is a
\* review
C26_Witness ==
    /\ PeriodsReturned
    /\ \E i \in 1..Len(Periods) :
          /\ C25_CommitsIn(i) = {}
          /\ Cardinality(C25_CommentsIn(i)) = 2
          /\ Periods[i].activity_type = "review"

-----------------------------------------------------------------------------
(* SpecApproval: comments grouped under the thread key 'approval'          *)

MaxApprovalComments == 3

ApprovalPool ==
    {Comment("bob", <<"A", "p", "p", "r", "o", "v", "e", "d">>, Iso(1, 1), TypeReview),
     Comment("carol", <<"L", "G", "T", "M", ",", " ", "c", "o", "u", "l", "d", " ", "y", "o", "u", "?">>, Iso(1, 2), TypeReviewComment),
     Comment(PRAuthor, <<"w", "h", "y", " ", "m", "i", "g", "h", "t", " ", "i", "t", "?", " ", "L", "o", "o", "k", "s", " ", "g", "o", "o", "d">>, Iso(1, 3), TypeIssue),
     Comment("bob", <<"@", "a", "l", " ", "l", "g", "t", "m">>, Iso(1, 4), TypeIssue),
     Comment(PRAuthor, <<"o", "k", ",", " ", "I", " ", "a", "p", "p", "r", "o", "v", "e">>, Iso(1, 5), TypeIssue)}

FetchApprovalComment == FetchComment(ApprovalPool, MaxApprovalComments)

NextApproval == FetchApprovalComment \/ AnalyzeConversations

SpecApproval == Init /\ [][NextApproval]_vars

\* C27: every thread whose thread key is 'approval' has the thread_type
\* 'approval'.
C27_ApprovalKeyIsApprovalType ==
    conv # None =>
        \A t \in 1..Len(Threads) :
            Threads[t].thread_id = <<"a", "p", "p", "r", "o", "v", "a", "l">> => Threads[t].thread_type = "approval"

\* C27 witness: a thread under the key 'approval' whose only comment says
\* 'Approved', of type 'approval'
C27_Witness ==
    /\ conv # None
    /\ \E t \in 1..Len(Threads) :
          /\ Threads[t].thread_id = <<"a", "p", "p", "r", "o", "v", "a", "l">>
          /\ \A i \in 1..Len(Threads[t].comments) :
                Threads[t].comments[i].body = <<"A", "p", "p", "r", "o", "v", "e", "d">>
          /\ Threads[t].thread_type = "approval"

\* a thread under the key 'approval' with the suggestion and question
\* keywords in its text
C27_WitnessMixed ==
    /\ conv # None
    /\ \E t \in 1..Len(Threads) :
          /\ Threads[t].thread_id = <<"a", "p", "p", "r", "o", "v", "a", "l">>
          /\ Len(Threads[t].comments) = 2
          /\ \A i \in 1..2 : Threads[t].comments[i].body # <<"A", "p", "p", "r", "o", "v", "e", "d">>
          /\ Threads[t].thread_type = "approval"

-----------------------------------------------------------------------------
(* llm_client.py: the prompt and the call of the model                     *)

\* f"{value:.1f}" on an Optional[float]: None has no format ".1f" and the
\* f-string raises TypeError
FormatOneDecimal(value) == IF value = None THEN Raised ELSE Returned(value[1])

\* f"{time_to_merge:.1f} hours" if time_to_merge else "Not merged": None
\* and 0.0 are false
FormatTimeToMerge(time_to_merge) ==
    IF time_to_merge # None /\ time_to_merge[1] # 0 THEN Some(time_to_merge[1]) ELSE None

\* _create_comprehensive_analysis_prompt: the prompt as the values its
\* f-strings insert, or the error of the timeline summary
create_comprehensive_analysis_prompt(pr_data, timeline_metrics, repo_context) ==
    LET time_to_merge == FormatTimeToMerge(timeline_metrics.time_to_merge)
        time_to_first_review == FormatOneDecimal(timeline_metrics.time_to_first_review)
    IN  IF time_to_first_review.raised THEN Raised
        ELSE Returned([total_comments |-> Len(pr_data.comments),
                       reviews |-> Len(pr_data.reviews),
                       commits |-> Len(pr_data.commits),
                       time_to_first_review |-> time_to_first_review.value[1],
                       time_to_merge |-> time_to_merge,
                       total_lifecycle |-> timeline_metrics.total_lifecycle,
                       review_cycles |-> timeline_metrics.review_cycles,
                       comment_frequency |-> timeline_metrics.comment_frequency,
                       repo_context |-> repo_context])

\* analyze_pr_comprehensive with the outcome chat of ollama.chat, which is
\* called only with a prompt: the parsed answer, or the error of the prompt
\* or of the call; called says whether ollama.chat was reached
analyze_pr_comprehensive(pr_data, timeline_metrics, repo_context, chat) ==
    LET prompt == create_comprehensive_analysis_prompt(pr_data, timeline_metrics,
                                                       repo_context)
    IN  IF prompt.raised THEN [called |-> FALSE, outcome |-> Raised]
        ELSE IF chat.raised THEN [called |-> TRUE, outcome |-> Raised]
        ELSE [called |-> TRUE,
              outcome |-> Returned(parse_analysis_response(chat.value[1]))]

-----------------------------------------------------------------------------
(* main.py: PRAnalyzer.analyze_pr, one action for each of its seven steps  *)

\* the locals of analyze_pr: pr_data is snap, timeline_metrics is tl, the
\* conversation analysis is conv and the analysis result is in llm;
\* conversation_analysis and file_analysis say whether the local is unset,
\* the empty dict or an analysis; steps lists the steps begun, failed those
\* that raised, chat what became of ollama.chat
StartOfAnalyzePR(use_repo_context) ==
    [pc |-> "fetch", use_repo_context |-> use_repo_context, repo_context |-> <<>>,
     conversation_analysis |-> "unset", analysis_result |-> "unset",
     file_analysis |-> "unset", report_path |-> "unset",
     steps |-> <<>>, failed |-> {}, chat |-> "not_called"]

\* a step that raises out of analyze_pr
Abort(step) ==
    [run EXCEPT !.pc = "raised", !.steps = Append(@, step), !.failed = @ \cup {step}]

\* Step 1: fetch_pr_data returns a PRData or raises; the except re-raises
FetchPRData(pool) ==
    /\ run.pc = "fetch"
    /\ \/ /\ run' = Abort("fetch")
          /\ UNCHANGED snap
       \/ \E pr_data \in pool :
             /\ snap' = pr_data
             /\ run' = [run EXCEPT !.pc = "timeline", !.steps = Append(@, "fetch")]
    /\ UNCHANGED <<conv, tl, periods, llm>>

\* Step 2: analyze_timeline(pr_data); the except re-raises; then
\* repo_context = "" and step 3 only if use_repo_context
AnalyzeTimelineStep ==
    /\ run.pc = "timeline"
    /\ tl' = Some(analyze_timeline(snap))
    /\ run' = IF analyze_timeline(snap).raised THEN Abort("timeline")
              ELSE [run EXCEPT !.pc = IF run.use_repo_context THEN "repo_context"
                                      ELSE "conversations",
                               !.repo_context = <<>>,
                               !.steps = Append(@, "timeline")]
    /\ UNCHANGED <<snap, conv, periods, llm>>

\* Step 3: get_focused_context returns a text or raises; the except sets
\* repo_context = "" and the call goes on
GetRepositoryContext(contexts) ==
    /\ run.pc = "repo_context"
    /\ \/ run' = [run EXCEPT !.pc = "conversations", !.repo_context = <<>>,
                             !.steps = Append(@, "repo_context"),
                             !.failed = @ \cup {"repo_context"}]
       \/ \E text \in contexts :
             run' = [run EXCEPT !.pc = "conversations", !.repo_context = text,
                                !.steps = Append(@, "repo_context")]
    /\ UNCHANGED <<snap, conv, tl, periods, llm>>

\* Step 4: analyze_conversations(pr_data), or an exception inside it; the
\* except sets conversation_analysis = {} and the call goes on
AnalyzeConversationsStep ==
    /\ run.pc = "conversations"
    /\ \/ /\ run' = [run EXCEPT !.pc = "llm", !.conversation_analysis = "empty",
                                !.steps = Append(@, "conversations"),
                                !.failed = @ \cup {"conversations"}]
          /\ UNCHANGED conv
       \/ /\ conv' = Some(analyze_conversations(snap))
          /\ run' = [run EXCEPT !.pc = "llm", !.conversation_analysis = "analysis",
                                !.steps = Append(@, "conversations")]
    /\ UNCHANGED <<snap, tl, periods, llm>>

\* Mutant: a failed LLM analysis leaves a null result and the call goes on
PerformLLMAnalysisContinuing(responses) ==
    /\ run.pc = "llm"
    /\ \E chat \in {Raised} \cup {Returned(text) : text \in responses} :
          LET call == analyze_pr_comprehensive(snap, tl[1].value[1], run.repo_context, chat)
          IN  /\ run' = IF call.outcome.raised
                        THEN [run EXCEPT !.pc = "files", !.analysis_result = "null",
                                         !.steps = Append(@, "llm"),
                                         !.failed = @ \cup {"llm"}]
                        ELSE [run EXCEPT !.pc = "files", !.analysis_result = "result",
                                         !.chat = "responded",
                                         !.steps = Append(@, "llm")]
              /\ llm' = IF call.outcome.raised THEN llm
                        ELSE [analysis_text |-> chat.value[1],
                              result |-> call.outcome.value]
    /\ UNCHANGED <<snap, conv, tl, periods>>

\* Step 5: analyze_pr_comprehensive(pr_data, timeline_metrics, repo_context)
\* with the outcome of ollama.chat; the except re-raises
PerformLLMAnalysis(responses) ==
    /\ run.pc = "llm"
    /\ \E chat \in {Raised} \cup {Returned(text) : text \in responses} :
          LET call == analyze_pr_comprehensive(snap, tl[1].value[1], run.repo_context, chat)
          IN  /\ run' = IF call.outcome.raised
                        THEN [Abort("llm") EXCEPT
                                 !.chat = IF call.called THEN "raised" ELSE "not_called"]
                        ELSE [run EXCEPT !.pc = "files", !.analysis_result = "result",
                                         !.chat = "responded",
                                         !.steps = Append(@, "llm")]
              /\ llm' = IF call.outcome.raised THEN llm
                        ELSE [analysis_text |-> chat.value[1],
                              result |-> call.outcome.value]
    /\ UNCHANGED <<snap, conv, tl, periods>>

\* Step 6: analyze_code_changes returns a dict or raises; the except sets
\* file_analysis = {} and the call goes on
AnalyzeFiles ==
    /\ run.pc = "files"
    /\ \/ run' = [run EXCEPT !.pc = "document", !.file_analysis = "empty",
                             !.steps = Append(@, "files"),
                             !.failed = @ \cup {"files"}]
       \/ run' = [run EXCEPT !.pc = "document", !.file_analysis = "analysis",
                             !.steps = Append(@, "files")]
    /\ UNCHANGED <<snap, conv, tl, periods, llm>>

\* Step 7: create_pr_analysis_report returns the path or raises; the except
\* re-raises; then the summary is displayed and the path returned
GenerateDocument ==
    /\ run.pc = "document"
    /\ \/ run' = Abort("document")
       \/ run' = [run EXCEPT !.pc = "returned", !.report_path = "path",
                             !.steps = Append(@, "document")]
    /\ UNCHANGED <<snap, conv, tl, periods, llm>>

-----------------------------------------------------------------------------
(* SpecPipeline: analyze_pr on a PR that is reviewed, reviewed at its      *)
(* creation, not reviewed, or has a pending review without a date          *)

PipelineComment(type, created_at) ==
    [Comment("bob", <<"L", "G", "T", "M">>, created_at, type) EXCEPT !.id = 1]

ReviewedPR ==
    [EmptySnapshot(Iso(1, 0), Iso(3, 0), Some(Iso(2, 12)), None) EXCEPT
        !.comments = <<PipelineComment(TypeReviewComment, Iso(1, 6))>>]

ReviewedAtCreationPR ==
    [EmptySnapshot(Iso(1, 0), Iso(3, 0), Some(Iso(1, 0)), None) EXCEPT
        !.comments = <<PipelineComment(TypeReview, Iso(1, 0))>>]

UnreviewedPR ==
    [EmptySnapshot(Iso(1, 0), Iso(3, 0), None, None) EXCEPT
        !.comments = <<PipelineComment(TypeIssue, Iso(1, 6))>>]

PendingReviewPR ==
    [EmptySnapshot(Iso(1, 0), Iso(3, 0), None, None) EXCEPT
        !.comments = <<PipelineComment(TypeReview, EmptyStr)>>]

PipelinePRs == {ReviewedPR, ReviewedAtCreationPR, UnreviewedPR, PendingReviewPR}

PipelineContexts == {<<"d", "e", "f", " ", "f", "(", ")", ":", " ", "p", "a", "s", "s">>}

PipelineResponses == {<<"#", "#", "#", " ", "S", "U", "M", "M", "A", "R", "Y", "LF", "f", "i", "n", "e">>, <<>>}

InitPipeline ==
    /\ snap = EmptySnapshot(Iso(1, 0), Iso(1, 0), None, None)
    /\ conv = None
    /\ tl = None
    /\ periods = None
    /\ llm = NoResponse
    /\ \E use_repo_context \in BOOLEAN : run = StartOfAnalyzePR(use_repo_context)

FetchPipelinePR == FetchPRData(PipelinePRs)

GetPipelineContext == GetRepositoryContext(PipelineContexts)

PerformPipelineLLM == PerformLLMAnalysis(PipelineResponses)

NextPipeline ==
    \/ FetchPipelinePR
    \/ AnalyzeTimelineStep
    \/ GetPipelineContext
    \/ AnalyzeConversationsStep
    \/ PerformPipelineLLM
    \/ AnalyzeFiles
    \/ GenerateDocument

SpecPipeline == InitPipeline /\ [][NextPipeline]_vars

\* C28: for every TimelineMetrics that analyze_timeline returns, also one
\* with a null time_to_first_review, analyze_pr_comprehensive builds its
\* prompt without error: when the LLM step of analyze_pr fails, it is the
\* call of the model that failed.
C28_PromptBuiltForEveryTimeline ==
    /\ TimelineReturned =>
          ~create_comprehensive_analysis_prompt(snap, Metrics, run.repo_context).raised
    /\ "llm" \in run.failed => run.chat = "raised"

\* the order of the steps of analyze_pr; step 3 is left out without
\* use_repo_context
C29_Order ==
    IF run.use_repo_context
    THEN <<"fetch", "timeline", "repo_context", "conversations", "llm", "files", "document">>
    ELSE <<"fetch", "timeline", "conversations", "llm", "files", "document">>

C29_Aborting == {"fetch", "timeline", "llm", "document"}

\* C29: the steps of analyze_pr run in the order fetch, timeline, repo
\* context, conversation analysis, LLM analysis, file analysis, document
\* generation; the report path is returned only after all steps, with
\* fetch, timeline, LLM analysis and document generation succeeded; a
\* failure of one of these four aborts the call and no later step runs; a
\* failure of repo context, conversation analysis or file analysis leaves
\* an empty context, conversation analysis or file analysis and the next
\* step runs.
C29_StepsAndFailures ==
    LET n == Len(run.steps)
    IN  /\ n <= Len(C29_Order)
        /\ run.steps = SubSeq(C29_Order, 1, n)
        /\ run.report_path = "path" <=> run.pc = "returned"
        /\ run.pc = "returned" =>
              run.steps = C29_Order /\ run.failed \cap C29_Aborting = {}
        /\ run.failed \cap C29_Aborting # {} <=> run.pc = "raised"
        /\ run.pc = "raised" => run.failed \cap C29_Aborting = {run.steps[n]}
        /\ run.pc \notin {"raised", "returned"} => run.pc = C29_Order[n + 1]
        /\ "repo_context" \in run.failed => run.repo_context = <<>>
        /\ "conversations" \in run.failed =>
              run.conversation_analysis = "empty" /\ conv = None
        /\ "files" \in run.failed => run.file_analysis = "empty"

\* C29 witness: the report path is returned although repo context,
\* conversation analysis and file analysis failed
C29_Witness ==
    /\ run.pc = "returned"
    /\ run.report_path = "path"
    /\ run.failed = {"repo_context", "conversations", "files"}
    /\ run.repo_context = <<>>

\* the LLM analysis failed after a conversation analysis that failed: the
\* call is aborted at the fifth step
C29_WitnessAbort ==
    /\ run.pc = "raised"
    /\ run.failed = {"conversations", "llm"}
    /\ run.chat = "raised"
    /\ Len(run.steps) = 5

-----------------------------------------------------------------------------
(* main.py: PRAnalyzer.analyze_multiple_prs                                *)

\* the locals of analyze_multiple_prs before the loop: urls PR URLs, i the
\* number of the URL the loop is at, and the five lists. An entry of a list
\* is the value appended and url, the number of the URL it was computed
\* for; outcomes records what became of every URL the loop has left
StartOfAnalyzeMultiplePRs(urls, use_repo_context) ==
    [pc |-> "loop", urls |-> urls, i |-> 1, use_repo_context |-> use_repo_context,
     all_pr_data |-> <<>>, all_timeline_metrics |-> <<>>,
     all_analysis_results |-> <<>>, all_file_analyses |-> <<>>,
     all_conversation_analyses |-> <<>>,
     outcomes |-> <<>>, report_path |-> "unset"]

\* the outer except of the loop body: nothing is stored, continue
Continue(r, failed_step) ==
    [r EXCEPT !.i = @ + 1,
              !.outcomes = Append(@, [failed |-> {failed_step}, stored |-> FALSE])]

Entry(r, value) == [url |-> r.i, value |-> value]

\* the five appends at the end of the loop body
StoreResults(r, pr_data, timeline_metrics, analysis_result, file_analysis, conversation_analysis, failed) ==
    [r EXCEPT !.i = @ + 1,
              !.all_pr_data = Append(@, Entry(r, pr_data)),
              !.all_timeline_metrics = Append(@, Entry(r, timeline_metrics)),
              !.all_analysis_results = Append(@, Entry(r, analysis_result)),
              !.all_file_analyses = Append(@, Entry(r, file_analysis)),
              !.all_conversation_analyses = Append(@, Entry(r, conversation_analysis)),
              !.outcomes = Append(@, [failed |-> failed, stored |-> TRUE])]

\* Mutant: a failed LLM analysis is an error of the PR, which is left out
LoopBodyLeavingOutOnLLMFailure(r, fetched, context, conversation_fails, chat, files_fail) ==
    IF fetched.raised THEN Continue(r, "fetch")
    ELSE LET pr_data == fetched.value[1]
             timeline == analyze_timeline(pr_data)
         IN  IF timeline.raised THEN Continue(r, "timeline")
             ELSE LET timeline_metrics == timeline.value[1]
                      repo_context ==
                         IF r.use_repo_context /\ r.i = 1 /\ ~context.raised
                         THEN context.value[1] ELSE <<>>
                      call == analyze_pr_comprehensive(pr_data, timeline_metrics,
                                                       repo_context, chat)
                  IN  IF call.outcome.raised THEN Continue(r, "llm")
                      ELSE StoreResults(r, pr_data, timeline_metrics,
                                        call.outcome.value,
                                        IF files_fail THEN "empty" ELSE "analysis",
                                        IF conversation_fails THEN None
                                        ELSE Some(analyze_conversations(pr_data)),
                                        (IF conversation_fails THEN {"conversations"} ELSE {})
                                        \cup (IF files_fail THEN {"files"} ELSE {}))

\* the body of the loop for the URL number r.i, with the outcomes of the
\* calls it makes: fetch_pr_data, get_focused_context, an exception inside
\* analyze_conversations, ollama.chat, analyze_code_changes. A failed fetch
\* or timeline analysis goes to the outer except; a failed conversation
\* analysis gives {} (None here), a failed LLM analysis None, a failed file
\* analysis {}
LoopBody(r, fetched, context, conversation_fails, chat, files_fail) ==
    IF fetched.raised THEN Continue(r, "fetch")
    ELSE LET pr_data == fetched.value[1]
             timeline == analyze_timeline(pr_data)
         IN  IF timeline.raised THEN Continue(r, "timeline")
             ELSE LET timeline_metrics == timeline.value[1]
                      repo_context ==
                         IF r.use_repo_context /\ r.i = 1 /\ ~context.raised
                         THEN context.value[1] ELSE <<>>
                      call == analyze_pr_comprehensive(pr_data, timeline_metrics,
                                                       repo_context, chat)
                  IN  StoreResults(r, pr_data, timeline_metrics,
                                   IF call.outcome.raised THEN None
                                   ELSE call.outcome.value,
                                   IF files_fail THEN "empty" ELSE "analysis",
                                   IF conversation_fails THEN None
                                   ELSE Some(analyze_conversations(pr_data)),
                                   (IF conversation_fails THEN {"conversations"} ELSE {})
                                   \cup (IF call.outcome.raised THEN {"llm"} ELSE {})
                                   \cup (IF files_fail THEN {"files"} ELSE {}))

\* one pass of the for loop over pr_urls
ProcessPR(pool, contexts, responses) ==
    /\ run.pc = "loop"
    /\ run.i <= run.urls
    /\ \E fetched \in {Raised} \cup {Returned(pr) : pr \in pool},
          context \in {Raised} \cup {Returned(text) : text \in contexts},
          conversation_fails \in BOOLEAN,
          chat \in {Raised} \cup {Returned(text) : text \in responses},
          files_fail \in BOOLEAN :
          run' = LoopBody(run, fetched, context, conversation_fails, chat, files_fail)
    /\ UNCHANGED <<snap, conv, tl, periods, llm>>

\* Step 7 after the loop: create_combined_pr_analysis_report returns the
\* path or raises; the except re-raises
GenerateCombinedDocument ==
    /\ run.pc = "loop"
    /\ run.i > run.urls
    /\ \/ run' = [run EXCEPT !.pc = "raised"]
       \/ run' = [run EXCEPT !.pc = "returned", !.report_path = "path"]
    /\ UNCHANGED <<snap, conv, tl, periods, llm>>

-----------------------------------------------------------------------------
(* SpecBatch: analyze_multiple_prs on up to MaxBatchUrls PR URLs           *)

MaxBatchUrls == 2

BatchPRs == {ReviewedPR, UnreviewedPR, PendingReviewPR}

BatchResponses == {<<"#", "#", "#", " ", "S", "U", "M", "M", "A", "R", "Y", "LF", "f", "i", "n", "e">>}

InitBatch ==
    /\ snap = EmptySnapshot(Iso(1, 0), Iso(1, 0), None, None)
    /\ conv = None
    /\ tl = None
    /\ periods = None
    /\ llm = NoResponse
    /\ \E urls \in 0..MaxBatchUrls, use_repo_context \in BOOLEAN :
          run = StartOfAnalyzeMultiplePRs(urls, use_repo_context)

ProcessBatchPR == ProcessPR(BatchPRs, PipelineContexts, BatchResponses)

NextBatch == ProcessBatchPR \/ GenerateCombinedDocument

SpecBatch == InitBatch /\ [][NextBatch]_vars

\* the URL numbers of the entries of a list, in the order of the list
C30_Urls(list) == [k \in 1..Len(list) |-> list[k].url]

\* C30: the five lists of analyze_multiple_prs have the same length and
\* position k of each holds the values of the same PR; a PR whose fetch or
\* timeline analysis failed has an entry in none of them; every other PR
\* has one, in the order of the URLs, with a null analysis result when its
\* LLM analysis failed; the loop leaves no URL out, whatever failed before.
C30_ListsAligned ==
    LET urls == C30_Urls(run.all_pr_data)
        n == Len(run.outcomes)
    IN  /\ C30_Urls(run.all_timeline_metrics) = urls
        /\ C30_Urls(run.all_analysis_results) = urls
        /\ C30_Urls(run.all_file_analyses) = urls
        /\ C30_Urls(run.all_conversation_analyses) = urls
        /\ \A j, k \in 1..Len(urls) : j < k => urls[j] < urls[k]
        /\ \A k \in 1..Len(urls) :
              /\ ~analyze_timeline(run.all_pr_data[k].value).raised
              /\ run.all_timeline_metrics[k].value =
                    analyze_timeline(run.all_pr_data[k].value).value[1]
              /\ run.all_analysis_results[k].value = None
                    <=> "llm" \in run.outcomes[urls[k]].failed
        /\ \A u \in 1..n :
              /\ (\E k \in 1..Len(urls) : urls[k] = u)
                    <=> run.outcomes[u].failed \cap {"fetch", "timeline"} = {}
              /\ "llm" \in run.outcomes[u].failed =>
                    \E k \in 1..Len(urls) :
                        urls[k] = u /\ run.all_analysis_results[k].value = None
        /\ n = run.i - 1
        /\ n <= run.urls
        /\ run.pc # "loop" => n = run.urls

\* C30 witness: the fetch of the first PR failed, the second PR is stored
\* with a null analysis result after its LLM analysis failed, and the
\* combined report is generated
C30_Witness ==
    /\ run.pc = "returned"
    /\ run.urls = 2
    /\ run.outcomes[1].failed = {"fetch"}
    /\ "llm" \in run.outcomes[2].failed
    /\ C30_Urls(run.all_pr_data) = <<2>>
    /\ run.all_analysis_results[1].value = None
    /\ run.all_timeline_metrics[1].value.time_to_first_review # None

=============================================================================
